---- MODULE Spec2Model ----
(***************************************************************************)
(* A model of the two-pass assembler: the macro expander (pre_assembly.c), *)
(* the line tokenizer (text_tool.c), the symbol and macro tables           *)
(* (label_list.c, macro_list.c), the first and the second pass             *)
(* (first_pass.c, second_pass.c) and the driver (main.c).                  *)
(*                                                                         *)
(* Text is modelled character by character: a C string is a sequence of    *)
(* one-character strings, indexed from 0 through At, and a read at or past *)
(* the terminator yields NUL.  A file is the sequence of the lines fgets   *)
(* returns (each with its newline); the .am file is the flat character     *)
(* stream fputs builds, split again at newlines when it is read back.      *)
(***************************************************************************)
EXTENDS Integers, Sequences, FiniteSets, TLC

(***************************************************************************)
(* Program constants (setting.h, text_tool.h)                              *)
(***************************************************************************)
FIRST_CELL_IN_MEMORY == 100
MAX_ARRAY_SIZE == 924
MAX_NAME_LABEL_LENGTH == 32

\* count_word_in_line
ZERO == 0
ONE == 1
TWO == 2
TREE == 3
FOUR == 4
FIVE == 5
TOO_MUCH == 6

\* addressing_method
NOT_EXIST == 0
IMMEDIATE == 1
DIRECT == 3
REGISTER == 5

\* encoding_type
ABSOLUTE == 0
EXTERNAL == 1
RELOCATABLE == 2

\* instruction_type: MOV = 0 .. STOP = 15, then NOT_INSTRUCTION
NOT_INSTRUCTION == 16

NUL == "NUL"

(***************************************************************************)
(* C string helpers                                                        *)
(***************************************************************************)
At(s, i) == IF i >= 0 /\ i < Len(s) THEN s[i + 1] ELSE NUL

\* the characters s[from .. to-1]
Slice(s, from, to) == IF to <= from THEN << >> ELSE SubSeq(s, from + 1, to)

Letters == {"a", "b", "c", "d", "e", "f", "g", "h", "i", "j", "k", "l", "m",
            "n", "o", "p", "q", "r", "s", "t", "u", "v", "w", "x", "y", "z",
            "A", "B", "C", "D", "E", "F", "G", "H", "I", "J", "K", "L", "M",
            "N", "O", "P", "Q", "R", "S", "T", "U", "V", "W", "X", "Y", "Z"}

DigitChars == <<"0", "1", "2", "3", "4", "5", "6", "7", "8", "9">>

isdigit(c) == \E d \in 1..10 : DigitChars[d] = c

isalpha(c) == c \in Letters

DigitVal(c) == (CHOOSE d \in 1..10 : DigitChars[d] = c) - 1

\* the byte value of a character, for the ones a .string body stores
CharCode(c) ==
    CASE c = "a" -> 97 [] c = "b" -> 98 [] c = "c" -> 99 [] c = "d" -> 100
      [] c = "m" -> 109 [] c = "r" -> 114 [] c = "x" -> 120 [] c = "y" -> 121
      [] c = "X" -> 88 [] c = "Y" -> 89 [] c = "Z" -> 90
      [] c = "0" -> 48 [] c = "1" -> 49 [] c = "5" -> 53 [] c = "7" -> 55
      [] c = " " -> 32 [] c = "\t" -> 9 [] c = "," -> 44 [] c = ":" -> 58
      [] c = ";" -> 59 [] c = "." -> 46 [] c = "@" -> 64 [] c = "-" -> 45
      [] c = "+" -> 43 [] c = "\"" -> 34
      [] OTHER -> 63

\* atoi on a text that is_number accepted: optional sign, then digits
RECURSIVE DigitsVal(_, _, _)
DigitsVal(text, i, acc) ==
    IF isdigit(At(text, i)) THEN DigitsVal(text, i + 1, acc * 10 + DigitVal(At(text, i)))
    ELSE acc

atoi(text) ==
    IF At(text, 0) = "-" THEN 0 - DigitsVal(text, 1, 0)
    ELSE IF At(text, 0) = "+" THEN DigitsVal(text, 1, 0)
    ELSE DigitsVal(text, 0, 0)

\* sprintf("%d", n)
RECURSIVE NatToChars(_)
NatToChars(n) ==
    IF n < 10 THEN <<DigitChars[n + 1]>>
    ELSE NatToChars(n \div 10) \o <<DigitChars[(n % 10) + 1]>>

IntToChars(n) == IF n < 0 THEN <<"-">> \o NatToChars(0 - n) ELSE NatToChars(n)

\* A cell of data_array or instruction_array is a 32-bit pattern.  The model
\* names a pattern by the int that has it, so the conversion of an int to
\* unsigned int keeps the name: -1 names 0xFFFFFFFF.  With \div rounding down
\* and % non-negative, get_specific_bits reads the bits of such a name as
\* the C shifts and masks read the bits of the pattern.
ToUnsigned(n) == n

(***************************************************************************)
(* text_tool.c                                                             *)
(***************************************************************************)
RECURSIVE skip_white_character(_, _)
skip_white_character(curr_position, text) ==
    IF At(text, curr_position) \in {" ", "\t"}
    THEN skip_white_character(curr_position + 1, text)
    ELSE curr_position

RECURSIVE SkipWordChars(_, _)
SkipWordChars(curr_position, line_text) ==
    IF At(line_text, curr_position) \notin {" ", "\t", NUL}
    THEN SkipWordChars(curr_position + 1, line_text)
    ELSE curr_position

skip_one_word_in_line(curr_position, line_text) ==
    SkipWordChars(skip_white_character(curr_position, line_text), line_text)

RECURSIVE is_end_line(_, _)
is_end_line(curr_position, line_text) ==
    IF At(line_text, curr_position) \in {NUL, "\n"} THEN TRUE
    ELSE IF At(line_text, curr_position) \in {"\t", " "}
         THEN is_end_line(curr_position + 1, line_text)
         ELSE FALSE

is_line_empty(line_text) ==
    LET i == skip_white_character(0, line_text)
    IN  IF At(line_text, i) = ";" THEN TRUE ELSE is_end_line(i, line_text)

RECURSIVE fix_comma_from(_, _)
fix_comma_from(line, i) ==
    IF At(line, i) \in {"\n", NUL} THEN <<"\n">>
    ELSE IF At(line, i) = "," THEN <<" ", ",", " ">> \o fix_comma_from(line, i + 1)
    ELSE <<At(line, i)>> \o fix_comma_from(line, i + 1)

fix_comma_in_line(line) == fix_comma_from(line, 0)

RECURSIVE WordEnd(_, _)
WordEnd(temp_line, i) ==
    IF At(temp_line, i) \in {" ", "\t", "\n", NUL} THEN i
    ELSE WordEnd(temp_line, i + 1)

Pad5(ws) == ws \o [k \in 1..(5 - Len(ws)) |-> << >>]

MkLine(ws, cnt) ==
    [word1 |-> ws[1], word2 |-> ws[2], word3 |-> ws[3], word4 |-> ws[4],
     word5 |-> ws[5], source |-> NOT_EXIST, destination |-> NOT_EXIST,
     count |-> cnt]

\* the five expansions of the GET_WORD macro
RECURSIVE GET_WORD(_, _, _, _)
GET_WORD(temp_line, i, number, acc) ==
    LET e    == WordEnd(temp_line, i)
        ws   == Append(acc, Slice(temp_line, i, e))
        next == skip_white_character(e, temp_line)
    IN  IF At(temp_line, next) \in {"\n", NUL} THEN MkLine(Pad5(ws), number)
        ELSE IF number = FIVE THEN MkLine(ws, TOO_MUCH)
        ELSE GET_WORD(temp_line, next, number + 1, ws)

create_new_line_struct(text_line) ==
    LET temp_line == fix_comma_in_line(text_line)
        i         == skip_white_character(0, text_line)
    IN  IF At(temp_line, i) = "\n" THEN MkLine(Pad5(<< >>), ZERO)
        ELSE GET_WORD(temp_line, i, ONE, << >>)

delete_label_from_line_struct(ls) ==
    [ls EXCEPT !.word1 = ls.word2, !.word2 = ls.word3, !.word3 = ls.word4,
               !.word4 = ls.word5, !.word5 = << >>,
               !.count = IF ls.count # TOO_MUCH THEN ls.count - 1 ELSE ls.count]

\* is_label reads temp_first_word[1] of an empty first word, which is an
\* uninitialised stack byte: uninit is the outcome of that read
is_label(ls, uninit) ==
    IF ls.word1 = << >> THEN uninit ELSE ls.word1[Len(ls.word1)] = ":"

\* the first word once is_label has cut the colon
StripColon(ls) ==
    IF ls.word1 = << >> THEN ls
    ELSE [ls EXCEPT !.word1 = Slice(ls.word1, 0, Len(ls.word1) - 1)]

RECURSIVE AllDigitsFrom(_, _)
AllDigitsFrom(text, i) ==
    IF At(text, i) \in {NUL, "\n"} THEN TRUE
    ELSE IF ~isdigit(At(text, i)) THEN FALSE
    ELSE AllDigitsFrom(text, i + 1)

is_number(text) ==
    AllDigitsFrom(text, IF At(text, 0) \in {"+", "-"} THEN 1 ELSE 0)

is_register(text) ==
    text \in {<<"@", "r", "1">>, <<"@", "r", "2">>, <<"@", "r", "3">>,
              <<"@", "r", "4">>, <<"@", "r", "5">>, <<"@", "r", "6">>,
              <<"@", "r", "7">>, <<"@", "r", "0">>}

InstructionNames ==
    << <<"m", "o", "v">>, <<"c", "m", "p">>, <<"a", "d", "d">>, <<"s", "u", "b">>,
       <<"n", "o", "t">>, <<"c", "l", "r">>, <<"l", "e", "a">>, <<"i", "n", "c">>,
       <<"d", "e", "c">>, <<"j", "m", "p">>, <<"b", "n", "e">>, <<"r", "e", "d">>,
       <<"p", "r", "n">>, <<"j", "s", "r">>, <<"r", "t", "s">>,
       <<"s", "t", "o", "p">> >>

get_instruction_type(word) ==
    IF \E k \in 1..16 : InstructionNames[k] = word
    THEN (CHOOSE k \in 1..16 : InstructionNames[k] = word) - 1
    ELSE NOT_INSTRUCTION

DOT_DATA == <<".", "d", "a", "t", "a">>
DOT_STRING == <<".", "s", "t", "r", "i", "n", "g">>
DOT_ENTRY == <<".", "e", "n", "t", "r", "y">>
DOT_EXTERN == <<".", "e", "x", "t", "e", "r", "n">>

is_name_a_reserved_word(name) ==
    \/ name \in {DOT_DATA, DOT_STRING, DOT_ENTRY, DOT_EXTERN}
    \/ name \in {<<"@", "r", "0">>, <<"@", "r", "2">>, <<"@", "r", "3">>,
                 <<"@", "r", "4">>, <<"@", "r", "5">>, <<"@", "r", "6">>,
                 <<"@", "r", "7">>}
    \/ \E k \in 1..16 : InstructionNames[k] = name

\* the loop of is_label_name_valid: the number of characters counted, or -1
\* when a character that is neither a letter nor a digit is met
RECURSIVE CountNameChars(_, _, _)
CountNameChars(name_label, i, count_chars) ==
    IF At(name_label, i) \notin {"\n", NUL} /\ count_chars <= MAX_NAME_LABEL_LENGTH
    THEN IF ~isalpha(At(name_label, i)) /\ ~isdigit(At(name_label, i)) THEN 0 - 1
         ELSE CountNameChars(name_label, i + 1, count_chars + 1)
    ELSE count_chars

is_label_name_valid(name_label) ==
    IF is_name_a_reserved_word(name_label) THEN FALSE
    ELSE IF ~isalpha(At(name_label, 0)) THEN FALSE
    ELSE LET count_chars == CountNameChars(name_label, 0, 0)
         IN  IF count_chars < 0 THEN FALSE
             ELSE count_chars # MAX_NAME_LABEL_LENGTH

get_addressing_method_type(word) ==
    IF At(word, 0) = NUL THEN NOT_EXIST
    ELSE IF is_number(word) THEN IMMEDIATE
    ELSE IF is_register(word) THEN REGISTER
    ELSE DIRECT

get_number_of_register(register_name) == DigitVal(At(register_name, 2))

RECURSIVE pow_math(_)
pow_math(exp) == IF exp < 0 THEN 0 - 1 ELSE IF exp = 0 THEN 1 ELSE 2 * pow_math(exp - 1)

get_specific_bits(word, start, end) ==
    (word \div pow_math(start)) % pow_math(end - start + 1)

base64_table ==
    <<"A", "B", "C", "D", "E", "F", "G", "H", "I", "J", "K", "L", "M", "N", "O", "P",
      "Q", "R", "S", "T", "U", "V", "W", "X", "Y", "Z", "a", "b", "c", "d", "e", "f",
      "g", "h", "i", "j", "k", "l", "m", "n", "o", "p", "q", "r", "s", "t", "u", "v",
      "w", "x", "y", "z", "0", "1", "2", "3", "4", "5", "6", "7", "8", "9", "+", "/">>

\* the two characters in the opposite order
convert_binary_to_64base_low_first(word) ==
    <<base64_table[get_specific_bits(word, 0, 5) + 1],
      base64_table[get_specific_bits(word, 6, 11) + 1], "\n">>

convert_binary_to_64base(word) ==
    <<base64_table[get_specific_bits(word, 6, 11) + 1],
      base64_table[get_specific_bits(word, 0, 5) + 1], "\n">>

(***************************************************************************)
(* macro_list.c: the macro table is the list of its nodes, in order        *)
(***************************************************************************)
\* the position of the first node named name_macro, 0 for NULL
search_in_list_macro(head_macro, name_macro) ==
    IF \E k \in 1..Len(head_macro) : head_macro[k].name_macro = name_macro
    THEN CHOOSE k \in 1..Len(head_macro) :
            /\ head_macro[k].name_macro = name_macro
            /\ \A j \in 1..(k - 1) : head_macro[j].name_macro # name_macro
    ELSE 0

add_to_list_macro(head, name, text) ==
    LET new_node == [name_macro |-> name, text_macro |-> text]
    IN  IF head = << >> THEN [list |-> <<new_node>>, err |-> "NO_ERROR"]
        ELSE IF \E k \in 1..Len(head) : head[k].name_macro = name
             THEN [list |-> head, err |-> "MACRO_ALREADY_EXISTS"]
             ELSE [list |-> Append(head, new_node), err |-> "NO_ERROR"]

(***************************************************************************)
(* label_list.c: the symbol table is the list of its nodes, in order       *)
(***************************************************************************)
\* the position of the first node named name_label, 0 for NULL
search_in_list_label(head_label, name_label) ==
    IF \E k \in 1..Len(head_label) : head_label[k].name_label = name_label
    THEN CHOOSE k \in 1..Len(head_label) :
            /\ head_label[k].name_label = name_label
            /\ \A j \in 1..(k - 1) : head_label[j].name_label # name_label
    ELSE 0

\* the node of this name takes the new address and type
add_to_list_label_overwrite(head, name, address, type) ==
    LET new_node == [name_label |-> name, address_label |-> address, type |-> type]
    IN  IF \E k \in 1..Len(head) : head[k].name_label = name
        THEN [list |-> [k \in 1..Len(head) |->
                           IF head[k].name_label = name THEN new_node ELSE head[k]],
              err |-> "NO_ERROR"]
        ELSE [list |-> Append(head, new_node), err |-> "NO_ERROR"]

add_to_list_label(head, name, address, type) ==
    LET new_node == [name_label |-> name, address_label |-> address, type |-> type]
    IN  IF head = << >> THEN [list |-> <<new_node>>, err |-> "NO_ERROR"]
        ELSE IF \E k \in 1..Len(head) : head[k].name_label = name
             THEN [list |-> head, err |-> "LABEL_ALREADY_EXISTS"]
             ELSE [list |-> Append(head, new_node), err |-> "NO_ERROR"]

\* ic added to the address of every node, whatever its type
update_address_of_every_label(head_label, ic) ==
    [k \in 1..Len(head_label) |-> [head_label[k] EXCEPT !.address_label = @ + ic]]

update_address_of_data(head_label, ic) ==
    [k \in 1..Len(head_label) |->
        IF head_label[k].type = "DATA"
        THEN [head_label[k] EXCEPT !.address_label = @ + ic]
        ELSE head_label[k]]

\* the node becomes ENTRY and its address is cleared
mark_label_as_entry_address_cleared(head_label, name_label) ==
    LET k == search_in_list_label(head_label, name_label)
    IN  IF k # 0
        THEN [list |-> [head_label EXCEPT ![k].type = "ENTRY", ![k].address_label = 0],
              err |-> "NO_ERROR"]
        ELSE [list |-> head_label, err |-> "CANT_FIND_LABEL_TO_ENTRY"]

mark_label_as_entry(head_label, name_label) ==
    LET k == search_in_list_label(head_label, name_label)
    IN  IF k # 0
        THEN [list |-> [head_label EXCEPT ![k].type = "ENTRY"], err |-> "NO_ERROR"]
        ELSE [list |-> head_label, err |-> "CANT_FIND_LABEL_TO_ENTRY"]

RECURSIVE get_entry_list(_)
get_entry_list(head_label) ==
    IF head_label = << >> THEN << >>
    ELSE (IF Head(head_label).type = "ENTRY"
          THEN Head(head_label).name_label \o <<"\t">>
               \o IntToChars(Head(head_label).address_label) \o <<"\n">>
          ELSE << >>)
         \o get_entry_list(Tail(head_label))

(***************************************************************************)
(* The machine: the file_struct of the file being translated, the static   *)
(* variables of pre_assembly.c and second_pass.c, the .am file and the     *)
(* diagnostics printed.  The operators below take a machine m and return   *)
(* the machine after the function has run.                                 *)
(***************************************************************************)
\* arrays hold the cells written so far, the rest is the zero of memset
ArrWrite(arr, k, v) ==
    IF k < Len(arr) THEN [arr EXCEPT ![k + 1] = v]
    ELSE arr \o [j \in 1..(k - Len(arr)) |-> 0] \o <<v>>

ArrRead(arr, k) == IF k >= 0 /\ k < Len(arr) THEN arr[k + 1] ELSE 0

\* instruction_array is indexed by IC, which starts at FIRST_CELL_IN_MEMORY
InstrWrite(m, v) ==
    [m EXCEPT !.sfile.instruction_array =
                  ArrWrite(@, m.sfile.IC - FIRST_CELL_IN_MEMORY, v)]

\* the cell at index i of the array, FIRST_CELL_IN_MEMORY not subtracted
InstrRead_from_zero(instruction_array, i) == ArrRead(instruction_array, i)

InstrRead(instruction_array, i) == ArrRead(instruction_array, i - FIRST_CELL_IN_MEMORY)

create_new_file_struct ==
    [count_macro |-> 0, count_error |-> 0, count_line |-> 0,
     IC |-> FIRST_CELL_IN_MEMORY, DC |-> 0,
     error_flag |-> FALSE, extern_flag |-> FALSE, entry_flag |-> FALSE,
     data_array |-> << >>, instruction_array |-> << >>,
     head_macro_list |-> << >>, head_label_list |-> << >>]

(***************************************************************************)
(* pre_assembly.c                                                          *)
(***************************************************************************)
START_MACRO == <<"m", "c", "r", "o">>
END_MACRO == <<"e", "n", "d", "m", "c", "r", "o">>

pre_add_error(m, error_code) ==
    [m EXCEPT !.stdout = Append(@, [code |-> error_code, line |-> m.sfile.count_line]),
              !.sfile.error_flag = TRUE,
              !.sfile.count_error = @ + 1]

pre_update_error_status(m, error_code) ==
    IF error_code # "NO_ERROR" THEN pre_add_error(m, error_code) ELSE m

\* macro_flag tested before the words mcro and endmcro are looked for
pre_get_first_word_status_body_first(m, ls) ==
    IF search_in_list_macro(m.sfile.head_macro_list, ls.word1) # 0
    THEN [m |-> m, status |-> "STATUS_MACRO_NAME"]
    ELSE IF m.macro_flag /\ ls.word1 # END_MACRO
    THEN [m |-> m, status |-> "STATUS_TEXT_OF_MACRO"]
    ELSE IF ls.word1 = START_MACRO THEN [m |-> m, status |-> "STATUS_MCRO"]
    ELSE IF ls.word1 = END_MACRO THEN [m |-> m, status |-> "STATUS_ENDMCRO"]
    ELSE [m |-> m, status |-> "STATUS_TEXT_OF_CODE"]

pre_get_first_word_status(m, ls) ==
    IF search_in_list_macro(m.sfile.head_macro_list, ls.word1) # 0
    THEN [m |-> m, status |-> "STATUS_MACRO_NAME"]
    ELSE IF ls.word1 = START_MACRO
    THEN [m |-> IF m.macro_flag THEN pre_add_error(m, "NESTED_MACRO_DEFINITION") ELSE m,
          status |-> "STATUS_MCRO"]
    ELSE IF ls.word1 = END_MACRO THEN [m |-> m, status |-> "STATUS_ENDMCRO"]
    ELSE IF m.macro_flag THEN [m |-> m, status |-> "STATUS_TEXT_OF_MACRO"]
    ELSE [m |-> m, status |-> "STATUS_TEXT_OF_CODE"]

\* temp_head_macro_list is the node get_first_word_status found
paste_macro_text(m, ls) ==
    LET temp_head_macro_list ==
            m.sfile.head_macro_list[search_in_list_macro(m.sfile.head_macro_list, ls.word1)]
    IN  [m EXCEPT !.file_am = @ \o temp_head_macro_list.text_macro]

update_name_of_macro(m, ls) ==
    [m EXCEPT !.macro_flag = TRUE, !.curr_macro_name = ls.word2]

add_new_macro_to_list(m) ==
    LET m1 == [m EXCEPT !.macro_flag = FALSE, !.sfile.count_macro = @ + 1]
        r  == add_to_list_macro(m1.sfile.head_macro_list, m1.curr_macro_name,
                                m1.curr_macro_text)
        m2 == IF ~is_name_a_reserved_word(m1.curr_macro_name)
              THEN pre_update_error_status(
                       [m1 EXCEPT !.sfile.head_macro_list = r.list], r.err)
              ELSE pre_add_error(m1, "MACRO_NAME_IS_INSTRUCTION_OR_DIRECTIVE")
    IN  [m2 EXCEPT !.curr_macro_text = << >>, !.curr_macro_name = << >>]

add_text_to_macro(m, line_text) ==
    [m EXCEPT !.curr_macro_text = @ \o line_text]

\* the line written as the tokenizer sees it, its commas set apart
paste_code_text_commas_fixed(m, line_text) ==
    [m EXCEPT !.file_am = @ \o fix_comma_in_line(line_text)]

paste_code_text(m, line_text) ==
    [m EXCEPT !.file_am = @ \o line_text]

pre_action_by_status(m, status, ls, line_text) ==
    CASE status = "STATUS_MACRO_NAME" -> paste_macro_text(m, ls)
      [] status = "STATUS_MCRO" -> update_name_of_macro(m, ls)
      [] status = "STATUS_ENDMCRO" -> add_new_macro_to_list(m)
      [] status = "STATUS_TEXT_OF_MACRO" -> add_text_to_macro(m, line_text)
      [] status = "STATUS_TEXT_OF_CODE" -> paste_code_text(m, line_text)

\* pre_assembly_on_curr_file before its loop: macro_flag = FALSE and the
\* .am file opened for writing (truncated)
pre_assembly_begin(m) ==
    [m EXCEPT !.macro_flag = FALSE, !.file_am = << >>]

\* one iteration of the loop of pre_assembly_on_curr_file
pre_assembly_line(m, line_text) ==
    LET m1 == [m EXCEPT !.sfile.count_line = @ + 1]
        ls == create_new_line_struct(line_text)
        r  == pre_get_first_word_status(m1, ls)
    IN  pre_action_by_status(r.m, r.status, ls, line_text)

\* pre_assembly_on_curr_file after its loop: free_list_macro
print_end_of_pre_assembly(m) ==
    IF ~m.sfile.error_flag
    THEN [m EXCEPT !.stdout =
              Append(@, [code |-> "The pre-assembly process has been successfully completed",
                         line |-> m.sfile.count_macro])]
    ELSE m

pre_assembly_end(m) ==
    print_end_of_pre_assembly([m EXCEPT !.sfile.head_macro_list = << >>])

(***************************************************************************)
(* first_pass.c                                                            *)
(***************************************************************************)
\* fgets on the .am file: the lines of the stream, each with its newline,
\* the last one without when the stream does not end with a newline
RECURSIVE SplitLines(_, _)
SplitLines(text, acc) ==
    IF text = << >> THEN (IF acc = << >> THEN << >> ELSE <<acc>>)
    ELSE IF \E k \in DOMAIN text : text[k] = "\n"
    THEN LET k == CHOOSE k \in DOMAIN text :
                      text[k] = "\n" /\ \A j \in 1..(k - 1) : text[j] # "\n"
         IN  <<acc \o SubSeq(text, 1, k)>>
                 \o SplitLines(SubSeq(text, k + 1, Len(text)), << >>)
    ELSE <<acc \o text>>

AmLines(file_am) == SplitLines(file_am, << >>)

\* the value v stored in a bit-field of the given width
BitField(v, width) == v % pow_math(width)

fp_add_error(m, error_code) ==
    [m EXCEPT !.stdout = Append(@, [code |-> error_code, line |-> m.sfile.count_line]),
              !.sfile.error_flag = TRUE,
              !.sfile.count_error = @ + 1]

fp_update_error_status(m, error_code) ==
    IF error_code # "NO_ERROR" THEN fp_add_error(m, error_code) ELSE m

fp_get_word_status(word_text) ==
    IF word_text = DOT_DATA THEN "STATUS_DATA"
    ELSE IF word_text = DOT_STRING THEN "STATUS_STRING"
    ELSE IF word_text = DOT_EXTERN THEN "STATUS_EXTERN"
    ELSE IF word_text = DOT_ENTRY THEN "STATUS_ENTRY"
    ELSE "STATUS_CODE"

add_new_label_to_list(m, ls, temp_status) ==
    IF is_label_name_valid(ls.word1)
    THEN IF temp_status \in {"STATUS_DATA", "STATUS_STRING"}
         THEN LET r == add_to_list_label(m.sfile.head_label_list, ls.word1,
                                         m.sfile.DC, "DATA")
              IN  fp_update_error_status(
                      [m EXCEPT !.sfile.head_label_list = r.list], r.err)
         ELSE IF temp_status = "STATUS_CODE"
         THEN LET r == add_to_list_label(m.sfile.head_label_list, ls.word1,
                                         m.sfile.IC, "CODE")
              IN  fp_update_error_status(
                      [m EXCEPT !.sfile.head_label_list = r.list], r.err)
         ELSE m
    ELSE fp_add_error(m, "INVALID_LABEL_NAME")

\* actions_on_label inserting the label in front of .entry and .extern too
actions_on_label_always_inserting(m, ls, pos, line_text, uninit) ==
    IF is_label(ls, uninit)
    THEN LET ls1 == StripColon(ls)
             temp_status == fp_get_word_status(ls1.word2)
         IN  CASE temp_status = "STATUS_ENTRY" ->
                    [m |-> add_new_label_to_list(
                               fp_add_error(m, "CANT_DEFINE_LABEL_BEFORE_ENTRY"),
                               ls1, "STATUS_CODE"),
                     ls |-> [ls1 EXCEPT !.count = 0], pos |-> pos]
               [] temp_status = "STATUS_EXTERN" ->
                    [m |-> add_new_label_to_list(
                               fp_add_error(m, "CANT_DEFINE_LABEL_BEFORE_EXTERN"),
                               ls1, "STATUS_CODE"),
                     ls |-> [ls1 EXCEPT !.count = 0], pos |-> pos]
               [] OTHER ->
                    [m |-> add_new_label_to_list(m, ls1, temp_status),
                     ls |-> delete_label_from_line_struct(ls1),
                     pos |-> skip_one_word_in_line(pos, line_text)]
    ELSE [m |-> m, ls |-> ls, pos |-> pos]

\* returns the machine, the line structure and pos_in_line
actions_on_label(m, ls, pos, line_text, uninit) ==
    IF is_label(ls, uninit)
    THEN LET ls1 == StripColon(ls)
             temp_status == fp_get_word_status(ls1.word2)
         IN  CASE temp_status = "STATUS_ENTRY" ->
                    [m |-> fp_add_error(m, "CANT_DEFINE_LABEL_BEFORE_ENTRY"),
                     ls |-> [ls1 EXCEPT !.count = 0], pos |-> pos]
               [] temp_status = "STATUS_EXTERN" ->
                    [m |-> fp_add_error(m, "CANT_DEFINE_LABEL_BEFORE_EXTERN"),
                     ls |-> [ls1 EXCEPT !.count = 0], pos |-> pos]
               [] OTHER ->
                    [m |-> add_new_label_to_list(m, ls1, temp_status),
                     ls |-> delete_label_from_line_struct(ls1),
                     pos |-> skip_one_word_in_line(pos, line_text)]
    ELSE [m |-> m, ls |-> ls, pos |-> pos]

RECURSIVE NextWordEnd(_, _)
NextWordEnd(pos, line_text) ==
    IF At(line_text, pos) \in {" ", "\t", "\n", ",", NUL} THEN pos
    ELSE NextWordEnd(pos + 1, line_text)

fp_get_next_word_without_comma(pos, line_text) ==
    LET e == NextWordEnd(pos, line_text)
    IN  [word |-> Slice(line_text, pos, e), pos |-> skip_white_character(e, line_text)]

fp_check_for_comma(m, pos, line_text) ==
    IF At(line_text, pos) = "," THEN [m |-> m, pos |-> pos + 1, res |-> TRUE]
    ELSE [m |-> IF At(line_text, pos) \notin {"\n", NUL}
                THEN fp_add_error(m, "COMMA_REQUIRED_BETWEEN_VALUES") ELSE m,
          pos |-> pos, res |-> FALSE]

\* the do-while loop of save_data
RECURSIVE save_data_loop(_, _, _)
save_data_loop(m, pos0, line_text) ==
    LET pos == skip_white_character(pos0, line_text)
    IN  IF At(line_text, pos) = "," THEN fp_add_error(m, "INVALID_COMMA_POSITION")
        ELSE LET w  == fp_get_next_word_without_comma(pos, line_text)
                 m1 == IF is_number(w.word)
                       THEN [m EXCEPT !.sfile.data_array =
                                          ArrWrite(@, m.sfile.DC, ToUnsigned(atoi(w.word))),
                                      !.sfile.DC = @ + 1]
                       ELSE fp_add_error(m, "DATA_NEED_NUM_VALUE")
                 c  == fp_check_for_comma(m1, w.pos, line_text)
             IN  IF c.res THEN save_data_loop(c.m, c.pos, line_text) ELSE c.m

save_data(m, pos0, line_text) ==
    LET pos == skip_one_word_in_line(pos0, line_text)
    IN  IF is_end_line(pos, line_text) THEN fp_add_error(m, "MUST_PROVIDE_VALUES_TO_DATA")
        ELSE save_data_loop(m, pos, line_text)

\* the while loop of save_string: returns the machine and pos_in_line
RECURSIVE save_string_loop(_, _, _)
save_string_loop(m, pos, line_text) ==
    IF ~is_end_line(pos, line_text) /\ At(line_text, pos) # "\""
    THEN save_string_loop(
             [m EXCEPT !.sfile.data_array =
                           ArrWrite(@, m.sfile.DC, ToUnsigned(CharCode(At(line_text, pos)))),
                       !.sfile.DC = @ + 1],
             pos + 1, line_text)
    ELSE [m |-> m, pos |-> pos]

\* save_string without the terminating zero word
save_string_without_terminator(m, pos0, line_text) ==
    LET pos == skip_white_character(skip_one_word_in_line(pos0, line_text), line_text)
    IN  IF At(line_text, pos) = "\""
        THEN LET r == save_string_loop(m, pos + 1, line_text)
             IN  IF At(line_text, r.pos) = "\""
                 THEN IF ~is_end_line(r.pos + 1, line_text)
                      THEN fp_add_error(r.m, "STRING_DIRECTIVE_ACCEPTS_ONE_PARAMETER")
                      ELSE r.m
                 ELSE fp_add_error(r.m, "STRING_MUST_END_IN_QUOTES")
        ELSE fp_add_error(m, "STRING_STRUCTURE_NOT_VALID")

save_string(m, pos0, line_text) ==
    LET pos == skip_white_character(skip_one_word_in_line(pos0, line_text), line_text)
    IN  IF At(line_text, pos) = "\""
        THEN LET r == save_string_loop(m, pos + 1, line_text)
             IN  IF At(line_text, r.pos) = "\""
                 THEN LET m1 == [r.m EXCEPT !.sfile.data_array = ArrWrite(@, r.m.sfile.DC, 0),
                                            !.sfile.DC = @ + 1]
                      IN  IF ~is_end_line(r.pos + 1, line_text)
                          THEN fp_add_error(m1, "STRING_DIRECTIVE_ACCEPTS_ONE_PARAMETER")
                          ELSE m1
                 ELSE fp_add_error(r.m, "STRING_MUST_END_IN_QUOTES")
        ELSE fp_add_error(m, "STRING_STRUCTURE_NOT_VALID")

\* the do-while loop of add_extern_labels
RECURSIVE add_extern_labels_loop(_, _, _)
add_extern_labels_loop(m, pos0, line_text) ==
    LET pos == skip_white_character(pos0, line_text)
    IN  IF At(line_text, pos) = "," THEN fp_add_error(m, "INVALID_COMMA_POSITION")
        ELSE LET w  == fp_get_next_word_without_comma(pos, line_text)
                 r  == add_to_list_label(m.sfile.head_label_list, w.word, 0, "EXTERN")
                 m1 == IF is_label_name_valid(w.word)
                       THEN fp_update_error_status(
                                [m EXCEPT !.sfile.head_label_list = r.list], r.err)
                       ELSE fp_add_error(m, "INVALID_LABEL_NAME")
                 c  == fp_check_for_comma(m1, w.pos, line_text)
             IN  IF c.res THEN add_extern_labels_loop(c.m, c.pos, line_text) ELSE c.m

add_extern_labels(m, pos0, line_text) ==
    LET m1  == [m EXCEPT !.sfile.extern_flag = TRUE]
        pos == skip_one_word_in_line(pos0, line_text)
    IN  IF is_end_line(pos, line_text) THEN fp_add_error(m1, "MUST_PROVIDE_LABELS_TO_EXTERN")
        ELSE add_extern_labels_loop(m1, pos, line_text)

TwoOperandTypes == {0, 1, 2, 3, 6}

OneOperandTypes == {4, 5, 7, 8, 9, 10, 11, 12, 13}

NoOperandTypes == {14, 15}

fp_update_addressing_method_type(ls, type) ==
    IF type \in TwoOperandTypes
    THEN [ls EXCEPT !.source = get_addressing_method_type(ls.word2),
                    !.destination = get_addressing_method_type(ls.word4)]
    ELSE IF type \in OneOperandTypes
    THEN [ls EXCEPT !.source = NOT_EXIST,
                    !.destination = get_addressing_method_type(ls.word2),
                    !.word4 = ls.word2]
    ELSE [ls EXCEPT !.source = NOT_EXIST, !.destination = NOT_EXIST]

\* the diagnostics of check_errors_for_instructions, in the order raised
InstructionErrors(ls, type) ==
    (IF ls.count \in {TOO_MUCH, FIVE} THEN <<"TOO_MUCH_WORDS_FOR_INSTRUCTION">> ELSE << >>)
    \o (IF type \in TwoOperandTypes
        THEN (IF ls.count # FOUR THEN <<"INSTRUCTION_SHOULD_RECEIVE_TWO_OPERANDS">> ELSE << >>)
             \o (IF ls.word3 # <<",">> THEN <<"COMMA_REQUIRED_BETWEEN_OPERANDS">> ELSE << >>)
        ELSE IF type \in OneOperandTypes
        THEN (IF ls.count # TWO THEN <<"INSTRUCTION_SHOULD_RECEIVE_ONE_OPERAND">> ELSE << >>)
        ELSE IF type \in NoOperandTypes
        THEN (IF ls.count # ONE THEN <<"INSTRUCTION_SHOULD_NOT_RECEIVE_OPERANDS">> ELSE << >>)
        ELSE <<"INSTRUCTION_NAME_NOT_EXIST">>)
    \o (IF \/ type \in {0, 2, 3} /\ ls.destination = IMMEDIATE
           \/ type = 6 /\ (ls.destination = IMMEDIATE \/ ls.source # DIRECT)
           \/ type \in {4, 5, 7, 8, 9, 10, 11, 13} /\ ls.destination = IMMEDIATE
        THEN <<"INVALID_ADDRESS_METHOD_FOR_INSTRUCTION">> ELSE << >>)

RECURSIVE fp_add_errors(_, _)
fp_add_errors(m, codes) ==
    IF codes = << >> THEN m ELSE fp_add_errors(fp_add_error(m, Head(codes)), Tail(codes))

\* check_errors_for_instructions without the test of the addressing methods
check_errors_with_methods_unchecked(m, ls, type) ==
    fp_add_errors(m, SelectSeq(InstructionErrors(ls, type),
                               LAMBDA c : c # "INVALID_ADDRESS_METHOD_FOR_INSTRUCTION"))

check_errors_for_instructions(m, ls, type) == fp_add_errors(m, InstructionErrors(ls, type))

\* the bits of a bit-field struct above bit 11 are never assigned before the
\* memcpy of the whole unsigned int: garbage is their indeterminate value
StructWord(low12, garbage) == ToUnsigned(low12 + garbage * 4096)

\* the two addressing fields in each other's place
add_first_word_with_fields_swapped(m, ls, type, garbage) ==
    LET first_word_of_instruction ==
            BitField(ABSOLUTE, 2) + BitField(ls.source, 3) * 4
            + BitField(type, 4) * 32 + BitField(ls.destination, 3) * 512
        m1 == InstrWrite(m, StructWord(first_word_of_instruction, garbage))
    IN  [m1 EXCEPT !.sfile.IC = @ + 1]

add_first_word_of_instruction_to_array(m, ls, type, garbage) ==
    LET first_word_of_instruction ==
            BitField(ABSOLUTE, 2) + BitField(ls.destination, 3) * 4
            + BitField(type, 4) * 32 + BitField(ls.source, 3) * 512
        m1 == InstrWrite(m, StructWord(first_word_of_instruction, garbage))
    IN  [m1 EXCEPT !.sfile.IC = @ + 1]

RegisterWord(register_number_destination, register_number_source) ==
    BitField(ABSOLUTE, 2) + BitField(register_number_destination, 5) * 4
    + BitField(register_number_source, 5) * 128

ImmediateWord(value) == BitField(ABSOLUTE, 2) + BitField(value, 10) * 4

PutWord(m, v) == [InstrWrite(m, v) EXCEPT !.sfile.IC = @ + 1]

\* a word for each register operand, also when both operands are registers
add_the_rest_with_a_word_for_each_register(m, ls, garbage) ==
    LET m1 == CASE ls.source = REGISTER ->
                     PutWord(m, StructWord(
                         RegisterWord(NOT_EXIST, get_number_of_register(ls.word2)), garbage))
                [] ls.source = IMMEDIATE ->
                     PutWord(m, StructWord(ImmediateWord(atoi(ls.word2)), garbage))
                [] ls.source = DIRECT -> PutWord(m, 0)
                [] OTHER -> m
    IN  CASE ls.destination = REGISTER ->
                 PutWord(m1, StructWord(
                     RegisterWord(get_number_of_register(ls.word4), NOT_EXIST), garbage))
          [] ls.destination = IMMEDIATE ->
                 PutWord(m1, StructWord(ImmediateWord(atoi(ls.word4)), garbage))
          [] ls.destination = DIRECT -> PutWord(m1, 0)
          [] OTHER -> m1

add_the_rest_of_the_instruction_to_array(m, ls, garbage) ==
    LET m1 == CASE ls.source = REGISTER ->
                     PutWord(m, StructWord(
                         RegisterWord(IF ls.destination = REGISTER
                                      THEN get_number_of_register(ls.word4)
                                      ELSE NOT_EXIST,
                                      get_number_of_register(ls.word2)), garbage))
                [] ls.source = IMMEDIATE ->
                     PutWord(m, StructWord(ImmediateWord(atoi(ls.word2)), garbage))
                [] ls.source = DIRECT -> PutWord(m, 0)
                [] OTHER -> m
    IN  CASE ls.destination = REGISTER /\ ls.source # REGISTER ->
                 PutWord(m1, StructWord(
                     RegisterWord(get_number_of_register(ls.word4), NOT_EXIST), garbage))
          [] ls.destination = IMMEDIATE ->
                 PutWord(m1, StructWord(ImmediateWord(atoi(ls.word4)), garbage))
          [] ls.destination = DIRECT -> PutWord(m1, 0)
          [] OTHER -> m1

\* add_instructions gated by the errors of its own line only
add_instructions_gated_by_line(m, ls0, garbage) ==
    LET type == get_instruction_type(ls0.word1)
        ls   == fp_update_addressing_method_type(ls0, type)
        m1   == check_errors_for_instructions(m, ls, type)
    IN  IF InstructionErrors(ls, type) = << >>
        THEN add_the_rest_of_the_instruction_to_array(
                 add_first_word_of_instruction_to_array(m1, ls, type, garbage), ls, garbage)
        ELSE m1

add_instructions(m, ls0, garbage) ==
    LET type == get_instruction_type(ls0.word1)
        ls   == fp_update_addressing_method_type(ls0, type)
        m1   == check_errors_for_instructions(m, ls, type)
    IN  IF ~m1.sfile.error_flag
        THEN add_the_rest_of_the_instruction_to_array(
                 add_first_word_of_instruction_to_array(m1, ls, type, garbage), ls, garbage)
        ELSE m1

fp_action_by_status(m, status, ls, pos, line_text, garbage) ==
    CASE status = "STATUS_DATA" -> save_data(m, pos, line_text)
      [] status = "STATUS_STRING" -> save_string(m, pos, line_text)
      [] status = "STATUS_EXTERN" -> add_extern_labels(m, pos, line_text)
      [] status = "STATUS_ENTRY" -> m
      [] status = "STATUS_CODE" -> add_instructions(m, ls, garbage)

\* first_pass_on_curr_file before its loop
first_pass_begin(m) == [m EXCEPT !.sfile.count_line = 0]

\* one iteration of the loop of first_pass_on_curr_file
first_pass_line(m, line_text, uninit, garbage) ==
    LET m1 == [m EXCEPT !.sfile.count_line = @ + 1]
    IN  IF is_line_empty(line_text) THEN m1
        ELSE LET a == actions_on_label(m1, create_new_line_struct(line_text), 0,
                                       line_text, uninit)
             IN  IF a.ls.count = 0 THEN a.m
                 ELSE fp_action_by_status(a.m, fp_get_word_status(a.ls.word1), a.ls,
                                          a.pos, line_text, garbage)

update_address_label_of_data(m) ==
    [m EXCEPT !.sfile.head_label_list = update_address_of_data(@, m.sfile.IC)]

\* first_pass_on_curr_file after its loop
first_pass_end(m) ==
    IF ~m.sfile.error_flag THEN update_address_label_of_data(m) ELSE m

(***************************************************************************)
(* second_pass.c                                                           *)
(***************************************************************************)
\* a file on disk: absent until it is opened for writing
NoFile == [exists |-> FALSE, text |-> << >>]

File(text) == [exists |-> TRUE, text |-> text]

\* print_error and the count, the flag left as it is
sp_add_error_flag_kept(m, error_code) ==
    [m EXCEPT !.stdout = Append(@, [code |-> error_code, line |-> m.sfile.count_line]),
              !.sfile.count_error = @ + 1]

sp_add_error(m, error_code) ==
    [m EXCEPT !.stdout = Append(@, [code |-> error_code, line |-> m.sfile.count_line]),
              !.sfile.error_flag = TRUE,
              !.sfile.count_error = @ + 1]

sp_update_error_status(m, error_code) ==
    IF error_code # "NO_ERROR" THEN sp_add_error(m, error_code) ELSE m

sp_get_word_status(word_text) ==
    IF word_text = DOT_DATA THEN "STATUS_DATA"
    ELSE IF word_text = DOT_STRING THEN "STATUS_STRING"
    ELSE IF word_text = DOT_EXTERN THEN "STATUS_EXTERN"
    ELSE IF word_text = DOT_ENTRY THEN "STATUS_ENTRY"
    ELSE "STATUS_CODE"

\* returns the line structure and pos_in_line
skip_on_label(ls, pos, line_text, uninit) ==
    IF is_label(ls, uninit)
    THEN [ls |-> delete_label_from_line_struct(StripColon(ls)),
          pos |-> skip_one_word_in_line(pos, line_text)]
    ELSE [ls |-> ls, pos |-> pos]

sp_get_next_word_without_comma(pos, line_text) ==
    LET e == NextWordEnd(pos, line_text)
    IN  [word |-> Slice(line_text, pos, e), pos |-> skip_white_character(e, line_text)]

sp_check_for_comma(m, pos, line_text) ==
    IF At(line_text, pos) = "," THEN [m |-> m, pos |-> pos + 1, res |-> TRUE]
    ELSE [m |-> IF At(line_text, pos) \notin {"\n", NUL}
                THEN sp_add_error(m, "COMMA_REQUIRED_BETWEEN_VALUES") ELSE m,
          pos |-> pos, res |-> FALSE]

\* the do-while loop of mark_entry_labels
RECURSIVE mark_entry_labels_loop(_, _, _)
mark_entry_labels_loop(m, pos0, line_text) ==
    LET pos == skip_white_character(pos0, line_text)
    IN  IF At(line_text, pos) = "," THEN sp_add_error(m, "INVALID_COMMA_POSITION")
        ELSE LET w  == sp_get_next_word_without_comma(pos, line_text)
                 r  == mark_label_as_entry(m.sfile.head_label_list, w.word)
                 m1 == IF is_label_name_valid(w.word)
                       THEN sp_update_error_status(
                                [m EXCEPT !.sfile.head_label_list = r.list], r.err)
                       ELSE sp_add_error(m, "INVALID_LABEL_NAME")
                 c  == sp_check_for_comma(m1, w.pos, line_text)
             IN  IF c.res THEN mark_entry_labels_loop(c.m, c.pos, line_text) ELSE c.m

mark_entry_labels(m, pos0, line_text) ==
    LET m1  == [m EXCEPT !.sfile.entry_flag = TRUE]
        pos == skip_one_word_in_line(pos0, line_text)
    IN  IF is_end_line(pos, line_text) THEN sp_add_error(m1, "MUST_PROVIDE_LABELS_TO_ENTRY")
        ELSE mark_entry_labels_loop(m1, pos, line_text)

sp_update_addressing_method_type(ls, type) ==
    IF type \in TwoOperandTypes
    THEN [ls EXCEPT !.source = get_addressing_method_type(ls.word2),
                    !.destination = get_addressing_method_type(ls.word4)]
    ELSE IF type \in OneOperandTypes
    THEN [ls EXCEPT !.source = NOT_EXIST,
                    !.destination = get_addressing_method_type(ls.word2),
                    !.word4 = ls.word2]
    ELSE [ls EXCEPT !.source = NOT_EXIST, !.destination = NOT_EXIST]

add_extern_label_to_array(m, temp_node) ==
    [m EXCEPT !.extern_list =
                  @ \o temp_node.name_label \o <<"\t">> \o IntToChars(m.sfile.IC) \o <<"\n">>]

\* the word of a DIRECT operand with RELOCATABLE whatever the label is
DirectWord_always_relocatable(label_node) ==
    BitField(RELOCATABLE, 2) + BitField(label_node.address_label, 10) * 4

\* the word of a DIRECT operand that names the label label_node
DirectWord(label_node) ==
    BitField(IF label_node.type = "EXTERN" THEN EXTERNAL ELSE RELOCATABLE, 2)
    + BitField(label_node.address_label, 10) * 4

\* case DIRECT of either switch of update_the_rest_of_the_instruction_to_array
DirectOperand(m, word, garbage) ==
    LET k == search_in_list_label(m.sfile.head_label_list, word)
    IN  IF k # 0
        THEN LET label_node == m.sfile.head_label_list[k]
                 m1 == IF label_node.type = "EXTERN"
                       THEN add_extern_label_to_array(m, label_node) ELSE m
             IN  PutWord(m1, StructWord(DirectWord(label_node), garbage))
        ELSE sp_add_error(m, "LABEL_NOT_FOUND")

update_the_rest_of_the_instruction_to_array(m, ls, garbage) ==
    LET m1 == CASE ls.source \in {REGISTER, IMMEDIATE} -> [m EXCEPT !.sfile.IC = @ + 1]
                [] ls.source = DIRECT -> DirectOperand(m, ls.word2, garbage)
                [] OTHER -> m
    IN  CASE ls.destination = REGISTER /\ ls.source # REGISTER ->
                 [m1 EXCEPT !.sfile.IC = @ + 1]
          [] ls.destination = IMMEDIATE -> [m1 EXCEPT !.sfile.IC = @ + 1]
          [] ls.destination = DIRECT -> DirectOperand(m1, ls.word4, garbage)
          [] OTHER -> m1

complete_missing_instructions(m, ls0, garbage) ==
    LET type == get_instruction_type(ls0.word1)
        ls   == sp_update_addressing_method_type(ls0, type)
    IN  update_the_rest_of_the_instruction_to_array(
            [m EXCEPT !.sfile.IC = @ + 1], ls, garbage)

sp_action_by_status(m, status, ls, pos, line_text, garbage) ==
    CASE status \in {"STATUS_DATA", "STATUS_STRING", "STATUS_EXTERN"} -> m
      [] status = "STATUS_ENTRY" -> mark_entry_labels(m, pos, line_text)
      [] status = "STATUS_CODE" -> complete_missing_instructions(m, ls, garbage)

\* second_pass_on_curr_file before its loop
second_pass_begin(m) ==
    [m EXCEPT !.sfile.count_line = 0, !.extern_list = << >>,
              !.sfile.IC = FIRST_CELL_IN_MEMORY]

\* one iteration of the loop of second_pass_on_curr_file
second_pass_line(m, line_text, uninit, garbage) ==
    LET m1 == [m EXCEPT !.sfile.count_line = @ + 1]
    IN  IF is_line_empty(line_text) THEN m1
        ELSE LET a == skip_on_label(create_new_line_struct(line_text), 0, line_text, uninit)
             IN  IF a.ls.count = 0 THEN m1
                 ELSE sp_action_by_status(m1, sp_get_word_status(a.ls.word1), a.ls,
                                          a.pos, line_text, garbage)

\* the words instruction_array[from .. to-1], each in base 64
RECURSIVE InstructionLines(_, _, _)
InstructionLines(instruction_array, from, to) ==
    IF from >= to THEN << >>
    ELSE IF to = from + 1
    THEN convert_binary_to_64base(InstrRead(instruction_array, from))
    ELSE LET half == (from + to) \div 2
         IN  InstructionLines(instruction_array, from, half)
                 \o InstructionLines(instruction_array, half, to)

\* the words data_array[from .. to-1], each in base 64
RECURSIVE DataLines(_, _, _)
DataLines(data_array, from, to) ==
    IF from >= to THEN << >>
    ELSE IF to = from + 1
    THEN convert_binary_to_64base(ArrRead(data_array, from))
    ELSE LET half == (from + to) \div 2
         IN  DataLines(data_array, from, half) \o DataLines(data_array, half, to)

\* the header and the loop over instruction_array only
create_object_file_code_only(m) ==
    [m EXCEPT !.file_ob =
        File(IntToChars(m.sfile.IC - FIRST_CELL_IN_MEMORY) \o <<"\t">>
             \o IntToChars(m.sfile.DC) \o <<"\n">>
             \o InstructionLines(m.sfile.instruction_array, FIRST_CELL_IN_MEMORY, m.sfile.IC))]

create_object_file(m) ==
    [m EXCEPT !.file_ob =
        File(IntToChars(m.sfile.IC - FIRST_CELL_IN_MEMORY) \o <<"\t">>
             \o IntToChars(m.sfile.DC) \o <<"\n">>
             \o InstructionLines(m.sfile.instruction_array, FIRST_CELL_IN_MEMORY, m.sfile.IC)
             \o DataLines(m.sfile.data_array, 0, m.sfile.DC))]

create_all_files(m) ==
    LET m1 == IF m.sfile.entry_flag
              THEN [m EXCEPT !.file_ent = File(get_entry_list(m.sfile.head_label_list))]
              ELSE m
        m2 == IF m1.sfile.extern_flag
              THEN [m1 EXCEPT !.file_ext = File(m1.extern_list)]
              ELSE m1
    IN  create_object_file(m2)

\* second_pass_on_curr_file after its loop, up to the files
second_pass_end(m) ==
    IF ~m.sfile.error_flag THEN create_all_files(m) ELSE m

(***************************************************************************)
(* main.c                                                                  *)
(***************************************************************************)
print_end_of_file(m) ==
    [m EXCEPT !.stdout =
        Append(@, IF ~m.sfile.error_flag
                  THEN [code |-> "Compilation completed successfully",
                        line |-> m.sfile.IC + m.sfile.DC - FIRST_CELL_IN_MEMORY]
                  ELSE [code |-> "Compilation not completed",
                        line |-> m.sfile.count_error])]

\* the end of second_pass_on_curr_file (free_list_label), then
\* print_end_of_file of start_assembly_process_on_file
finish_file(m) ==
    print_end_of_file([m EXCEPT !.sfile.head_label_list = << >>])

(***************************************************************************)
(* The state machine.  The driver start_assembly translates the files of   *)
(* argv one after the other; pc is its position in                         *)
(* start_assembly_process_on_file, and sfile.count_line is also the number *)
(* of lines fgets has returned in the current stage.                       *)
(*                                                                         *)
(*   argv             the .as files named on the command line (main.c)     *)
(*   i                the index of start_assembly's loop over argv         *)
(*   residue          the indeterminate bits 12..31 of the bit-field       *)
(*                    structs that first_pass.c and second_pass.c memcpy   *)
(*   sfile            the file_struct of the current file (file_tool.h)    *)
(*   curr_macro_text, curr_macro_name, macro_flag                          *)
(*                    the static variables of pre_assembly.c               *)
(*   extern_list      the static buffer of second_pass.c                   *)
(*   file_am          the text of the .am file of the current file         *)
(*   file_ob, file_ent, file_ext                                           *)
(*                    the output files of the current file, absent until   *)
(*                    create_all_files opens them                          *)
(*   stdout           what print_error, print_end_of_pre_assembly and      *)
(*                    print_end_of_file printed for the current file       *)
(*   translated       for every file already finished, what it left behind *)
(***************************************************************************)
VARIABLES argv, i, pc, residue, sfile, curr_macro_text, curr_macro_name,
          macro_flag, extern_list, file_am, file_ob, file_ent, file_ext,
          stdout, translated

vars == <<argv, i, pc, residue, sfile, curr_macro_text, curr_macro_name,
          macro_flag, extern_list, file_am, file_ob, file_ent, file_ext,
          stdout, translated>>

\* the machine the operators above work on
M ==
    [sfile |-> sfile, curr_macro_text |-> curr_macro_text,
     curr_macro_name |-> curr_macro_name, macro_flag |-> macro_flag,
     extern_list |-> extern_list, file_am |-> file_am, file_ob |-> file_ob,
     file_ent |-> file_ent, file_ext |-> file_ext, stdout |-> stdout]

SetM(m) ==
    /\ sfile' = m.sfile
    /\ curr_macro_text' = m.curr_macro_text
    /\ curr_macro_name' = m.curr_macro_name
    /\ macro_flag' = m.macro_flag
    /\ extern_list' = m.extern_list
    /\ file_am' = m.file_am
    /\ file_ob' = m.file_ob
    /\ file_ent' = m.file_ent
    /\ file_ext' = m.file_ext
    /\ stdout' = m.stdout

\* the static variables as the loader leaves them (all bytes zero, and the
\* bool whose value is 0 is TRUE), before any file_struct exists
ProgramStart ==
    [sfile |-> create_new_file_struct, curr_macro_text |-> << >>,
     curr_macro_name |-> << >>, macro_flag |-> TRUE, extern_list |-> << >>,
     file_am |-> << >>, file_ob |-> NoFile, file_ent |-> NoFile,
     file_ext |-> NoFile, stdout |-> << >>]

\* start_assembly_process_on_file up to the loop of the pre-assembly: the
\* new file_struct, and the output files of this name not yet on disk
start_file(m) ==
    pre_assembly_begin([m EXCEPT !.sfile = create_new_file_struct,
                                 !.file_ob = NoFile, !.file_ent = NoFile,
                                 !.file_ext = NoFile, !.stdout = << >>])

\* the while loop of pre_assembly_on_curr_file over the lines of the source
RECURSIVE pre_assembly_on_curr_file(_, _)
pre_assembly_on_curr_file(m, lines) ==
    IF lines = << >> THEN pre_assembly_end(m)
    ELSE pre_assembly_on_curr_file(pre_assembly_line(m, Head(lines)), Tail(lines))

\* the while loop of first_pass_on_curr_file over the lines of the .am file
RECURSIVE first_pass_on_curr_file(_, _, _, _)
first_pass_on_curr_file(m, lines, uninit, garbage) ==
    IF lines = << >> THEN first_pass_end(m)
    ELSE first_pass_on_curr_file(first_pass_line(m, Head(lines), uninit, garbage),
                                 Tail(lines), uninit, garbage)

\* the while loop of second_pass_on_curr_file over the lines of the .am file
RECURSIVE second_pass_on_curr_file(_, _, _, _)
second_pass_on_curr_file(m, lines, uninit, garbage) ==
    IF lines = << >> THEN second_pass_end(m)
    ELSE second_pass_on_curr_file(second_pass_line(m, Head(lines), uninit, garbage),
                                  Tail(lines), uninit, garbage)

\* the three stages on one source file, then the end of the file
start_assembly_process_on_file(m, file_as, uninit, garbage) ==
    LET expanded == pre_assembly_on_curr_file(start_file(m), file_as)
        first == first_pass_on_curr_file(first_pass_begin(expanded),
                                         AmLines(expanded.file_am), uninit, garbage)
        second == second_pass_on_curr_file(second_pass_begin(first),
                                           AmLines(first.file_am), uninit, garbage)
    IN  finish_file(second)

\* the outcomes of the uninitialised read of is_label on this line
UninitOutcomes(line_text) ==
    IF ~is_line_empty(line_text) /\ create_new_line_struct(line_text).word1 = << >>
    THEN BOOLEAN ELSE {FALSE}

\* the values the unassigned bits 12..31 of a bit-field struct may hold
Residues == {0, 349525}

(***************************************************************************)
(* Source files: every line ends with a newline and is shorter than the    *)
(* 81 characters fgets reads at once.                                      *)
(***************************************************************************)
MaxLines == 3

MaxMacroLines == 5

MaxMultiLines == 2

MaxEntryLines == 4

MaxReservedLines == 3

MaxCapacityLines == 36

MaxInstructionLines == 3

MaxStatementLines == 2

MaxLegalityLines == 1

Catalogue ==
    {<<"X", ":">>,
     <<"X", ":", " ", ".", "d", "a", "t", "a", " ", "7", ",", "-", "1">>,
     <<"Y", ":", " ", ".", "s", "t", "r", "i", "n", "g", " ", "\"", "a", "b", "\"">>,
     <<".", "e", "x", "t", "e", "r", "n", " ", "X">>,
     <<".", "e", "n", "t", "r", "y", " ", "X">>,
     <<"j", "m", "p", " ", "X">>,
     <<"m", "o", "v", " ", "X", ",", "Y">>,
     <<"p", "r", "n", " ", "-", "5">>,
     <<"X", ":", " ", "i", "n", "c", " ", "@", "r", "1">>,
     <<"f", "o", "o">>,
     <<"m", "c", "r", "o", " ", "s", "t", "o", "p">>,
     <<"e", "n", "d", "m", "c", "r", "o">>}

MacroCatalogue ==
    {<<"m", "c", "r", "o", " ", "m">>,
     <<"e", "n", "d", "m", "c", "r", "o">>,
     <<"m">>,
     <<"s", "t", "o", "p">>}

EntryCatalogue ==
    {<<"X", ":">>,
     <<"Y", ":", " ", ".", "s", "t", "r", "i", "n", "g", " ", "\"", "a", "b", "\"">>,
     <<".", "e", "n", "t", "r", "y", " ", "X">>,
     <<".", "e", "n", "t", "r", "y", " ", "Y">>,
     <<"s", "t", "o", "p">>}

ReservedCatalogue ==
    {<<"m", "c", "r", "o", " ", "@", "r", "1">>,
     <<"m", "c", "r", "o", " ", "@", "r", "2">>,
     <<"m", "c", "r", "o", " ", "m">>,
     <<"e", "n", "d", "m", "c", "r", "o">>,
     <<"m", "c", "r", "o", ":", " ", "s", "t", "o", "p">>,
     <<"s", "t", "o", "p", ":", " ", "s", "t", "o", "p">>,
     <<"a", "1", ":", " ", "s", "t", "o", "p">>,
     <<"1", "a", ":", " ", "s", "t", "o", "p">>,
     <<".", "e", "x", "t", "e", "r", "n", " ", "e", "n", "d", "m", "c", "r", "o">>,
     <<".", "e", "n", "t", "r", "y", " ", "a", "1">>}

\* a file of .string lines of 41 words each, then prn lines of 2 words each
CapacityFile(strings, lines) ==
    [k \in 1..lines |->
        IF k <= strings
        THEN <<".", "s", "t", "r", "i", "n", "g", " ", "\"">> \o [j \in 1..40 |-> "a"] \o <<"\"", "\n">>
        ELSE <<"p", "r", "n", " ", "-", "5">> \o <<"\n">>]

InstructionCatalogue ==
    {<<"m", "o", "v", " ", "@", "r", "1", ",", "@", "r", "2">>,
     <<"m", "o", "v", " ", "X", ",", "@", "r", "3">>,
     <<"c", "m", "p", " ", "@", "r", "4", ",", "-", "5">>,
     <<"p", "r", "n", " ", "-", "5">>,
     <<"i", "n", "c", " ", "@", "r", "7">>,
     <<"j", "m", "p", " ", "X">>,
     <<"s", "t", "o", "p">>,
     <<"l", "e", "a", " ", "X", ",", "Y">>,
     <<"m", "o", "v", " ", "3", ",", "-", "5">>,
     <<"X", ":", " ", "r", "t", "s">>}

\* directive lines with well-formed and ill-formed operand lists, and labels
\* in front of .extern and .entry
StatementCatalogue ==
    {<<".", "d", "a", "t", "a", " ", "1", ",">>,
     <<".", "d", "a", "t", "a", " ", ",", "1">>,
     <<".", "d", "a", "t", "a", " ", "1", ",", ",", "2">>,
     <<".", "d", "a", "t", "a", " ", "7", ",", "-", "1">>,
     <<".", "d", "a", "t", "a", " ", "+", "3", ",", " ", "4", " ", ",", "5">>,
     <<".", "d", "a", "t", "a", " ", "6">>,
     <<".", "d", "a", "t", "a", " ", "1", " ", "2">>,
     <<".", "s", "t", "r", "i", "n", "g", " ", "\"", "a", "b", "\"">>,
     <<".", "s", "t", "r", "i", "n", "g", " ", "\"", "\"">>,
     <<".", "s", "t", "r", "i", "n", "g", " ", "\"", "a", ",", " ", "b", "\"">>,
     <<".", "s", "t", "r", "i", "n", "g", " ", "a", "b", "\"">>,
     <<".", "s", "t", "r", "i", "n", "g", " ", "\"", "a", "b">>,
     <<"X", ":", " ", ".", "e", "x", "t", "e", "r", "n", " ", "Z">>,
     <<"X", ":", " ", ".", "e", "n", "t", "r", "y", " ", "Y">>,
     <<"Y", ":", " ", "s", "t", "o", "p">>,
     <<".", "e", "x", "t", "e", "r", "n", " ", "Z">>,
     <<"j", "m", "p", " ", "Z">>}

\* every instruction of one and of two operands with every pairing of an
\* immediate, a direct and a register operand
LegalityOperands == {<<"-", "5">>, <<"X">>, <<"@", "r", "1">>}

LegalityCatalogue ==
    {InstructionNames[k] \o <<" ">> \o source \o <<",">> \o destination :
         k \in {1, 2, 3, 4, 7}, source \in LegalityOperands, destination \in LegalityOperands}
    \cup {InstructionNames[k] \o <<" ">> \o destination :
              k \in {5, 6} \cup (8..14), destination \in LegalityOperands}

\* the files of 1 .. n lines of a catalogue
Files(catalogue, n) ==
    UNION {[1..k -> {line \o <<"\n">> : line \in catalogue}] : k \in 1..n}

InitMachine ==
    /\ i = 1
    /\ pc = "start"
    /\ residue \in Residues
    /\ sfile = ProgramStart.sfile
    /\ curr_macro_text = ProgramStart.curr_macro_text
    /\ curr_macro_name = ProgramStart.curr_macro_name
    /\ macro_flag = ProgramStart.macro_flag
    /\ extern_list = ProgramStart.extern_list
    /\ file_am = ProgramStart.file_am
    /\ file_ob = ProgramStart.file_ob
    /\ file_ent = ProgramStart.file_ent
    /\ file_ext = ProgramStart.file_ext
    /\ stdout = ProgramStart.stdout
    /\ translated = << >>

Init ==
    /\ argv \in {<<f>> : f \in Files(Catalogue, MaxLines)}
    /\ InitMachine

InitMacro ==
    /\ argv \in {<<f>> : f \in Files(MacroCatalogue, MaxMacroLines)}
    /\ InitMachine

InitMulti ==
    /\ argv \in {<<f, g>> : f \in Files(MacroCatalogue, MaxMultiLines),
                            g \in Files(MacroCatalogue, MaxMultiLines)}
    /\ InitMachine

InitEntry ==
    /\ argv \in {<<f>> : f \in Files(EntryCatalogue, MaxEntryLines)}
    /\ InitMachine

InitReserved ==
    /\ argv \in {<<f>> : f \in Files(ReservedCatalogue, MaxReservedLines)}
    /\ InitMachine

\* the .string lines of a file fit data_array: at most 924 \div 41 of them
InitCapacity ==
    /\ argv \in {<<CapacityFile(strings, MaxCapacityLines)>> :
                   strings \in 0..(MAX_ARRAY_SIZE \div 41)}
    /\ InitMachine

InitInstruction ==
    /\ argv \in {<<f>> : f \in Files(InstructionCatalogue, MaxInstructionLines)}
    /\ InitMachine

InitStatement ==
    /\ argv \in {<<f>> : f \in Files(StatementCatalogue, MaxStatementLines)}
    /\ InitMachine

InitLegality ==
    /\ argv \in {<<f>> : f \in Files(LegalityCatalogue, MaxLegalityLines)}
    /\ InitMachine

StartFile ==
    /\ pc = "start"
    /\ SetM(start_file(M))
    /\ pc' = "pre"
    /\ UNCHANGED <<argv, i, residue, translated>>

PreLine ==
    /\ pc = "pre"
    /\ sfile.count_line < Len(argv[i])
    /\ SetM(pre_assembly_line(M, argv[i][sfile.count_line + 1]))
    /\ UNCHANGED <<argv, i, pc, residue, translated>>

PreEnd ==
    /\ pc = "pre"
    /\ sfile.count_line = Len(argv[i])
    /\ SetM(first_pass_begin(pre_assembly_end(M)))
    /\ pc' = "first"
    /\ UNCHANGED <<argv, i, residue, translated>>

FirstLine ==
    /\ pc = "first"
    /\ sfile.count_line < Len(AmLines(file_am))
    /\ LET line_text == AmLines(file_am)[sfile.count_line + 1]
       IN  \E uninit \in UninitOutcomes(line_text) :
               SetM(first_pass_line(M, line_text, uninit, residue))
    /\ UNCHANGED <<argv, i, pc, residue, translated>>

\* the loop of the first pass left at the first diagnostic
FirstEnd_at_diagnostic ==
    /\ pc = "first"
    /\ sfile.count_line = Len(AmLines(file_am)) \/ sfile.error_flag
    /\ SetM(first_pass_end(M))
    /\ pc' = "between"
    /\ UNCHANGED <<argv, i, residue, translated>>

FirstEnd ==
    /\ pc = "first"
    /\ sfile.count_line = Len(AmLines(file_am))
    /\ SetM(first_pass_end(M))
    /\ pc' = "between"
    /\ UNCHANGED <<argv, i, residue, translated>>

SecondStart ==
    /\ pc = "between"
    /\ SetM(second_pass_begin(M))
    /\ pc' = "second"
    /\ UNCHANGED <<argv, i, residue, translated>>

SecondLine ==
    /\ pc = "second"
    /\ sfile.count_line < Len(AmLines(file_am))
    /\ LET line_text == AmLines(file_am)[sfile.count_line + 1]
       IN  \E uninit \in UninitOutcomes(line_text) :
               SetM(second_pass_line(M, line_text, uninit, residue))
    /\ UNCHANGED <<argv, i, pc, residue, translated>>

SecondEnd ==
    /\ pc = "second"
    /\ sfile.count_line = Len(AmLines(file_am))
    /\ SetM(second_pass_end(M))
    /\ pc' = "emitted"
    /\ UNCHANGED <<argv, i, residue, translated>>

\* what a translated file leaves behind: its files and its diagnostics
Artefacts(m) ==
    [am |-> m.file_am, ob |-> m.file_ob, ent |-> m.file_ent, ext |-> m.file_ext,
     stdout |-> m.stdout]

FinishFile ==
    /\ pc = "emitted"
    /\ SetM(finish_file(M))
    /\ translated' = Append(translated, Artefacts(finish_file(M)))
    /\ i' = i + 1
    /\ pc' = IF i < Len(argv) THEN "start" ELSE "halt"
    /\ UNCHANGED <<argv, residue>>

Next ==
    \/ StartFile
    \/ PreLine
    \/ PreEnd
    \/ FirstLine
    \/ FirstEnd
    \/ SecondStart
    \/ SecondLine
    \/ SecondEnd
    \/ FinishFile

Spec == Init /\ [][Next]_vars

SpecMacro == InitMacro /\ [][Next]_vars

SpecMulti == InitMulti /\ [][Next]_vars

SpecEntry == InitEntry /\ [][Next]_vars

SpecReserved == InitReserved /\ [][Next]_vars

SpecCapacity == InitCapacity /\ [][Next]_vars

SpecInstruction == InitInstruction /\ [][Next]_vars

SpecStatement == InitStatement /\ [][Next]_vars

SpecLegality == InitLegality /\ [][Next]_vars

(***************************************************************************)
(* Diagnostics and artefacts of the file being translated.                 *)
(***************************************************************************)
\* the lines of stdout that print_error wrote
IsDiagnostic(entry) ==
    entry.code \notin {"The pre-assembly process has been successfully completed",
                       "Compilation completed successfully",
                       "Compilation not completed"}

DiagnosticRaised == \E k \in DOMAIN stdout : IsDiagnostic(stdout[k])

ArtefactWritten == file_ob.exists \/ file_ent.exists \/ file_ext.exists

\* C1: if a diagnostic was raised for the file in any stage, none of its
\* .ob, .ent and .ext files is written; at the end of the second pass the
\* files are there only if the error flag of the file is still clear.
C1_NoArtefactAfterDiagnostic ==
    /\ DiagnosticRaised => ~ArtefactWritten
    /\ (pc = "emitted" /\ ArtefactWritten) => ~sfile.error_flag

\* a file with code words already encoded and a diagnostic, at the end of
\* the second pass, with nothing written
C1_Witness ==
    /\ pc = "emitted"
    /\ DiagnosticRaised
    /\ sfile.IC > FIRST_CELL_IN_MEMORY
    /\ ~ArtefactWritten

(***************************************************************************)
(* The expander as section 4.1 of the specification describes it: Outside  *)
(* and InsideBody(name), the macro table, and the lines emitted.           *)
(***************************************************************************)
\* the number-th whitespace-separated token of a line, << >> when missing
RECURSIVE Token(_, _, _)
Token(line, pos, number) ==
    LET from == skip_white_character(pos, line)
        to   == WordEnd(line, from)
    IN  IF number = 1 THEN Slice(line, from, to) ELSE Token(line, to, number - 1)

IsReservedWord(name) ==
    \/ name \in {DOT_DATA, DOT_STRING, DOT_ENTRY, DOT_EXTERN, START_MACRO, END_MACRO}
    \/ \E r \in 0..7 : name = <<"@", "r", DigitChars[r + 1]>>
    \/ \E k \in 1..16 : InstructionNames[k] = name

RECURSIVE ExpectedExpansion(_, _, _, _, _)
ExpectedExpansion(lines, table, inside, name, body) ==
    IF lines = << >> THEN << >>
    ELSE LET line  == Head(lines)
             rest  == Tail(lines)
             token == Token(line, 0, 1)
         IN  IF inside
             THEN IF token = END_MACRO
                  THEN ExpectedExpansion(
                           rest,
                           IF IsReservedWord(name) \/ \E k \in DOMAIN table : table[k].name = name
                           THEN table
                           ELSE Append(table, [name |-> name, body |-> body]),
                           FALSE, << >>, << >>)
                  ELSE IF token = START_MACRO
                  THEN ExpectedExpansion(rest, table, TRUE, name, body)
                  ELSE ExpectedExpansion(rest, table, TRUE, name, body \o line)
             ELSE IF token = START_MACRO
                  THEN ExpectedExpansion(rest, table, TRUE, Token(line, 0, 2), << >>)
                  ELSE IF token # << >> /\ \E k \in DOMAIN table : table[k].name = token
                  THEN (LET k == CHOOSE k \in DOMAIN table : table[k].name = token
                        IN  table[k].body)
                       \o ExpectedExpansion(rest, table, FALSE, << >>, << >>)
                  ELSE line \o ExpectedExpansion(rest, table, FALSE, << >>, << >>)

\* C2: the .am file the expander leaves is the source in which a line
\* outside a definition that starts with the name of a defined macro is
\* replaced by the body of the macro, every other line outside a definition
\* is copied, and the lines of a definition (mcro, body, endmcro) are left out.
C2_ExpanderContract ==
    pc = "first" => file_am = ExpectedExpansion(argv[i], << >>, FALSE, << >>, << >>)

(***************************************************************************)
(* The object file.                                                        *)
(***************************************************************************)
\* the lines of the object file after its header
WordLineCount == Cardinality({k \in DOMAIN file_ob.text : file_ob.text[k] = "\n"}) - 1

\* C3 as stated: the final IC plus the final DC is the number of words of
\* the object file.
C3_CounterSum ==
    (pc = "emitted" /\ file_ob.exists) => sfile.IC + sfile.DC = WordLineCount

\* C3: IC starts at FIRST_CELL_IN_MEMORY, and it is the final IC less
\* FIRST_CELL_IN_MEMORY, plus the final DC, that is the number of words
\* of the object file.
C3_CounterSumFromBase ==
    (pc = "emitted" /\ file_ob.exists) =>
        (sfile.IC - FIRST_CELL_IN_MEMORY) + sfile.DC = WordLineCount

\* an object file with code words and data words
C3_Witness ==
    /\ pc = "emitted"
    /\ file_ob.exists
    /\ sfile.IC > FIRST_CELL_IN_MEMORY
    /\ sfile.DC > 0

\* the value of a character of the base 64 alphabet
Base64Value(c) == (CHOOSE k \in 1..64 : base64_table[k] = c) - 1

\* the 12 bits a word line of the object file stands for
DecodeLine(line) == Base64Value(line[1]) * 64 + Base64Value(line[2])

\* the position of the tab of the header line
TabOf(line) == CHOOSE k \in DOMAIN line : line[k] = "\t"

\* C4: the header of a written object file is IC - FIRST_CELL_IN_MEMORY, a
\* tab and DC; after it come exactly that many word lines: the cells
\* instruction_array[FIRST_CELL_IN_MEMORY .. IC-1] in order, then the cells
\* data_array[0 .. DC-1] in order.
C4_ObjectFileLayout ==
    (pc = "emitted" /\ file_ob.exists) =>
        LET lines  == SplitLines(file_ob.text, << >>)
            header == lines[1]
            code_word_count == sfile.IC - FIRST_CELL_IN_MEMORY
        IN  /\ \E k \in DOMAIN header : header[k] = "\t"
            /\ header[Len(header)] = "\n"
            /\ atoi(SubSeq(header, 1, TabOf(header) - 1)) = code_word_count
            /\ atoi(SubSeq(header, TabOf(header) + 1, Len(header) - 1)) = sfile.DC
            /\ Len(lines) = 1 + code_word_count + sfile.DC
            /\ \A k \in 2..Len(lines) : Len(lines[k]) = 3 /\ lines[k][3] = "\n"
            /\ \A k \in 1..code_word_count :
                   DecodeLine(lines[1 + k]) = ArrRead(sfile.instruction_array, k - 1) % 4096
            /\ \A k \in 1..sfile.DC :
                   DecodeLine(lines[1 + code_word_count + k])
                       = ArrRead(sfile.data_array, k - 1) % 4096

\* an object file with at least two code words and two data words, the
\* first data word not zero
C4_Witness ==
    /\ pc = "emitted"
    /\ file_ob.exists
    /\ sfile.IC >= FIRST_CELL_IN_MEMORY + 2
    /\ sfile.DC >= 2
    /\ ArrRead(sfile.data_array, 0) # 0

(***************************************************************************)
(* The symbol table.                                                       *)
(***************************************************************************)
\* C5: after a first pass without errors every CODE label has its address in
\* FIRST_CELL_IN_MEMORY .. IC-1 and every DATA label in IC .. IC+DC-1.
C5_LabelRanges ==
    (pc = "between" /\ ~sfile.error_flag) =>
        \A k \in DOMAIN sfile.head_label_list :
            LET node == sfile.head_label_list[k]
            IN  /\ node.type = "CODE" =>
                       /\ node.address_label >= FIRST_CELL_IN_MEMORY
                       /\ node.address_label < sfile.IC
                /\ node.type = "DATA" =>
                       /\ node.address_label >= sfile.IC
                       /\ node.address_label < sfile.IC + sfile.DC

NoTwoShareName(head_label) ==
    \A j, k \in DOMAIN head_label :
        head_label[j].name_label = head_label[k].name_label => j = k

\* the diagnostics of one kind printed so far
CountOf(out, error_code) == Cardinality({k \in DOMAIN out : out[k].code = error_code})

\* the name a line of the first pass inserts, when it inserts exactly one:
\* the label of a label definition, or the one name of a .extern
SingleInsertion(line_text) ==
    LET first  == Token(line_text, 0, 1)
        second == Token(line_text, 0, 2)
        name   == Slice(first, 0, Len(first) - 1)
    IN  IF first # << >> /\ first[Len(first)] = ":"
        THEN IF second \notin {DOT_ENTRY, DOT_EXTERN} /\ is_label_name_valid(name)
             THEN {name} ELSE {}
        ELSE IF first = DOT_EXTERN /\ Token(line_text, 0, 3) = << >>
                /\ is_label_name_valid(second)
        THEN {second} ELSE {}

WordsOf(line_text) ==
    LET ls == create_new_line_struct(line_text)
    IN  SelectSeq(<<ls.word1, ls.word2, ls.word3, ls.word4, ls.word5>>,
                  LAMBDA w : w # << >> /\ w # <<",">>)

\* the words of a line after its label, if it has one
StatementOf(line_text) ==
    LET ws == WordsOf(line_text)
    IN  IF ws # << >> /\ ws[1][Len(ws[1])] = ":" THEN Tail(ws) ELSE ws

\* the names the .extern lines of the expanded stream declare
DeclaredExtern(lines) ==
    UNION {{StatementOf(lines[k])[j] : j \in 2..Len(StatementOf(lines[k]))} :
               k \in {n \in DOMAIN lines : /\ StatementOf(lines[n]) # << >>
                                           /\ StatementOf(lines[n])[1] = DOT_EXTERN}}

\* the operands of the instructions that name a declared extern, in the
\* order of the expanded stream
RECURSIVE ExternUses(_, _)
ExternUses(lines, declared) ==
    IF lines = << >> THEN << >>
    ELSE LET st == StatementOf(Head(lines))
         IN  (IF st # << >> /\ get_instruction_type(st[1]) # NOT_INSTRUCTION
              THEN SelectSeq(Tail(st), LAMBDA w : w \in declared)
              ELSE << >>)
             \o ExternUses(Tail(lines), declared)

\* the names of the lines of an extern listing, in order
ListingNames(listing) ==
    LET lines == SplitLines(listing, << >>)
    IN  [k \in DOMAIN lines |->
            SubSeq(lines[k], 1, (CHOOSE t \in DOMAIN lines[k] : lines[k][t] = "\t") - 1)]

\* C7: for a name X that a .extern declares, the extern listing has no line
\* when no instruction names X, and one line for each operand that names X,
\* in the order the second pass meets them.
C7_ExternListingPerUse ==
    (pc = "emitted" /\ ~sfile.error_flag) =>
        ListingNames(extern_list)
            = ExternUses(AmLines(file_am), DeclaredExtern(AmLines(file_am)))

\* an operand word of the object code with External in its A,R,E field
ExternalUseEncoded ==
    \E k \in 1..(sfile.IC - FIRST_CELL_IN_MEMORY) :
        /\ ArrRead(sfile.instruction_array, k - 1) % 4 = EXTERNAL
        /\ file_ext.text # << >>

\* C8: the .ext file is written only if the file has a .extern and the
\* second pass encoded at least one operand that names an external label.
C8_ExtOnlyWithUse ==
    (pc = "emitted" /\ file_ext.exists) => (sfile.extern_flag /\ ExternalUseEncoded)

(***************************************************************************)
(* The entry listing.                                                      *)
(***************************************************************************)
\* name, tab, address and newline for every ENTRY record, in table order
EntryRecords(head_label) == SelectSeq(head_label, LAMBDA node : node.type = "ENTRY")

EntryLineMatches(line, node) ==
    /\ \E t \in DOMAIN line : line[t] = "\t"
    /\ SubSeq(line, 1, TabOf(line) - 1) = node.name_label
    /\ line[Len(line)] = "\n"
    /\ \A t \in (TabOf(line) + 1)..(Len(line) - 1) : isdigit(line[t])
    /\ atoi(SubSeq(line, TabOf(line) + 1, Len(line) - 1)) = node.address_label

\* C9: the .ent file is written only if a .entry line was processed and no
\* error was raised; its lines are the ENTRY records of the symbol table in
\* the order of the table, name, tab, address; and the second pass, which
\* makes records ENTRY, changes no name and no address of the table.
C9_EntryListing ==
    [][/\ (pc' = "emitted" /\ file_ent'.exists) =>
              /\ ~DiagnosticRaised'
              /\ \E k \in DOMAIN AmLines(file_am') :
                     Token(AmLines(file_am')[k], 0, 1) = DOT_ENTRY
              /\ LET lines   == SplitLines(file_ent'.text, << >>)
                     records == EntryRecords(sfile'.head_label_list)
                 IN  /\ Len(lines) = Len(records)
                     /\ records # << >>
                     /\ \A k \in DOMAIN lines : EntryLineMatches(lines[k], records[k])
       /\ (pc = "second" /\ pc' \in {"second", "emitted"}) =>
              /\ Len(sfile'.head_label_list) = Len(sfile.head_label_list)
              /\ \A k \in DOMAIN sfile.head_label_list :
                     /\ sfile'.head_label_list[k].name_label
                            = sfile.head_label_list[k].name_label
                     /\ sfile'.head_label_list[k].address_label
                            = sfile.head_label_list[k].address_label]_vars

\* an entry file of two lines, the second record of the table a data label
\* with the address the end of the first pass gave it
C9_Witness ==
    /\ pc = "emitted"
    /\ file_ent.exists
    /\ Len(EntryRecords(sfile.head_label_list)) = 2
    /\ sfile.head_label_list[2].address_label >= sfile.IC
    /\ Len(SplitLines(file_ent.text, << >>)) = 2

(***************************************************************************)
(* Several files in one run.                                               *)
(***************************************************************************)
\* what translating file_as alone, in a run of its own, leaves behind
TranslatedAlone(file_as) ==
    Artefacts(start_assembly_process_on_file(ProgramStart, file_as, FALSE, residue))

\* C10: the .am file, the diagnostics and the output files of every file of
\* a run are those of the file translated alone, whatever the files before.
C10_NoCrossFileState ==
    \A k \in DOMAIN translated : translated[k] = TranslatedAlone(argv[k])

(***************************************************************************)
(* The macro table.                                                        *)
(***************************************************************************)
NoTwoShareMacroName(head_macro) ==
    \A j, k \in DOMAIN head_macro :
        head_macro[j].name_macro = head_macro[k].name_macro => j = k

\* the reserved words a macro may not be named by: the directives, the
\* registers @r0 .. @r7 and the sixteen opcode mnemonics
ReservedForMacro(name) == IsReservedWord(name) /\ name \notin {START_MACRO, END_MACRO}

\* C11: after any sequence of macro definitions no two macros of the table
\* share a name and none is named by a directive, a register @r0 .. @r7 or
\* an opcode mnemonic; an endmcro that closes a definition with a reserved
\* name raises MacroNameIsInstructionOrDirective, one that closes a
\* definition with an existing name raises MacroAlreadyExists, and the
\* table is unchanged in both cases.
C11_MacroTable ==
    [][(pc = "pre" /\ pc' = "pre") =>
         LET line   == argv[i][sfile.count_line + 1]
             old    == sfile.head_macro_list
             new    == sfile'.head_macro_list
             closes == macro_flag /\ Token(line, 0, 1) = END_MACRO
         IN  /\ NoTwoShareMacroName(new)
             /\ \A k \in DOMAIN new : ~ReservedForMacro(new[k].name_macro)
             /\ (closes /\ ReservedForMacro(curr_macro_name)) =>
                    /\ new = old
                    /\ CountOf(stdout', "MACRO_NAME_IS_INSTRUCTION_OR_DIRECTIVE")
                         = CountOf(stdout, "MACRO_NAME_IS_INSTRUCTION_OR_DIRECTIVE") + 1
             /\ (closes /\ ~ReservedForMacro(curr_macro_name)
                        /\ search_in_list_macro(old, curr_macro_name) # 0) =>
                    /\ new = old
                    /\ CountOf(stdout', "MACRO_ALREADY_EXISTS")
                         = CountOf(stdout, "MACRO_ALREADY_EXISTS") + 1
      ]_vars

(***************************************************************************)
(* Label names.                                                            *)
(***************************************************************************)
\* a name that starts with a letter, holds letters and digits only, is
\* shorter than 32 characters and is no reserved lexeme
ValidLabelName(name) ==
    /\ name # << >>
    /\ isalpha(name[1])
    /\ \A k \in DOMAIN name : isalpha(name[k]) \/ isdigit(name[k])
    /\ Len(name) < MAX_NAME_LABEL_LENGTH
    /\ ~IsReservedWord(name)

\* the name a line offers as a label: the label it defines, or the one name
\* of its directive
OfferedName(line_text, directive) ==
    LET first  == Token(line_text, 0, 1)
        second == Token(line_text, 0, 2)
    IN  IF first = directive /\ second # << >> /\ Token(line_text, 0, 3) = << >>
        THEN {second}
        ELSE IF directive = << >> /\ first # << >> /\ first[Len(first)] = ":"
                /\ second \notin {DOT_ENTRY, DOT_EXTERN}
        THEN {Slice(first, 0, Len(first) - 1)}
        ELSE {}

\* C12: a label definition, a .extern and a .entry accept a name if and
\* only if it starts with a letter, holds only letters and digits, is
\* shorter than 32 characters and is not a reserved lexeme; every other
\* name raises INVALID_LABEL_NAME and is not inserted into the symbol table.
C12_LabelNameAccepted ==
    [][LET invalid == CountOf(stdout', "INVALID_LABEL_NAME")
                          - CountOf(stdout, "INVALID_LABEL_NAME")
           old == sfile.head_label_list
           new == sfile'.head_label_list
           line_text == AmLines(file_am)[sfile.count_line + 1]
       IN  /\ (pc = "first" /\ pc' = "first") =>
                  \A name \in OfferedName(line_text, << >>)
                                  \cup OfferedName(line_text, DOT_EXTERN) :
                      IF ValidLabelName(name)
                      THEN invalid = 0 /\ search_in_list_label(new, name) # 0
                      ELSE invalid = 1 /\ new = old
           /\ (pc = "second" /\ pc' = "second") =>
                  \A name \in OfferedName(line_text, DOT_ENTRY) :
                      IF ValidLabelName(name)
                      THEN invalid = 0
                      ELSE invalid = 1 /\ new = old
      ]_vars

(***************************************************************************)
(* The counters and the capacity of the arrays.                            *)
(***************************************************************************)
\* C13: between any two lines of the first pass IC + DC is at most
\* FIRST_CELL_IN_MEMORY + MAX_ARRAY_SIZE, whatever the source file is.
C13_CountersWithinCapacity ==
    (pc = "first" /\ sfile.count_line < Len(AmLines(file_am))) =>
        sfile.IC + sfile.DC <= FIRST_CELL_IN_MEMORY + MAX_ARRAY_SIZE

(***************************************************************************)
(* The base-64 lines of the stored words.                                  *)
(***************************************************************************)
\* the cells of instruction_array and data_array written so far
StoredWords ==
    {sfile.instruction_array[k] : k \in DOMAIN sfile.instruction_array}
        \cup {sfile.data_array[k] : k \in DOMAIN sfile.data_array}

\* C14: for every stored word w the encoder gives two characters of the
\* alphabet and a newline, the first for bits 6-11 and the second for bits
\* 0-5 of w; the two decoded values, high then low, are w mod 2^12, and the
\* bits above bit 11 change nothing: w and w mod 2^12 have the same line.
\* The word lines of a written object file are these lines.
C14_Base64Encoding ==
    /\ \A w \in StoredWords :
           LET line == convert_binary_to_64base(w)
           IN  /\ Len(line) = 3
               /\ line[3] = "\n"
               /\ \E hi, lo \in 1..64 :
                      /\ line[1] = base64_table[hi]
                      /\ line[2] = base64_table[lo]
                      /\ hi - 1 = (w \div 64) % 64
                      /\ lo - 1 = w % 64
                      /\ (hi - 1) * 64 + (lo - 1) = w % 4096
               /\ line = convert_binary_to_64base(w % 4096)
    /\ (pc = "emitted" /\ file_ob.exists) =>
           LET lines == SplitLines(file_ob.text, << >>)
               code_word_count == sfile.IC - FIRST_CELL_IN_MEMORY
           IN  /\ \A k \in 1..code_word_count :
                      lines[1 + k] = convert_binary_to_64base(
                                         ArrRead(sfile.instruction_array, k - 1))
               /\ \A k \in 1..sfile.DC :
                      lines[1 + code_word_count + k] = convert_binary_to_64base(
                                         ArrRead(sfile.data_array, k - 1))

\* an object file is written from a code word with bits above bit 11 set
\* and a negative data word
C14_Witness ==
    /\ pc = "emitted"
    /\ file_ob.exists
    /\ \E k \in DOMAIN sfile.instruction_array : sfile.instruction_array[k] >= 4096
    /\ \E k \in DOMAIN sfile.data_array : sfile.data_array[k] < 0

(***************************************************************************)
(* Sources without macros.                                                 *)
(***************************************************************************)
\* the lines of the current file the expander has read
LinesRead == IF pc = "pre" THEN SubSeq(argv[i], 1, sfile.count_line) ELSE argv[i]

\* no line read starts a definition, ends one or names a macro of the table
NoMacroLine ==
    \A k \in DOMAIN LinesRead :
        /\ Token(LinesRead[k], 0, 1) \notin {START_MACRO, END_MACRO}
        /\ search_in_list_macro(sfile.head_macro_list, Token(LinesRead[k], 0, 1)) = 0

\* C15: for a source in which no line has mcro, endmcro or a macro name as
\* its first token, the expanded stream is the sequence of the input lines,
\* line for line, and the expander raises no diagnostic.
C15_ExpansionFixedPoint ==
    (pc \in {"pre", "first", "between", "second", "emitted"} /\ NoMacroLine) =>
        /\ AmLines(file_am) = LinesRead
        /\ pc = "pre" => stdout = << >> /\ ~sfile.error_flag
        /\ pc # "pre" =>
               stdout[1].code = "The pre-assembly process has been successfully completed"

\* three lines, one of them with a comma, expanded to themselves
C15_Witness ==
    /\ pc = "first"
    /\ NoMacroLine
    /\ Len(argv[i]) = 3
    /\ \E k \in 1..3 : \E j \in DOMAIN argv[i][k] : argv[i][k][j] = ","
    /\ AmLines(file_am) = argv[i]
    /\ ~DiagnosticRaised

(***************************************************************************)
(* Diagnostics and the course of the translation.                          *)
(***************************************************************************)
\* the lines the current pass still has to read
LinesLeft ==
    IF pc = "pre" THEN Len(argv[i]) - sfile.count_line
    ELSE Len(AmLines(file_am)) - sfile.count_line

\* C16: a diagnostic never aborts the translation of a file. Every step of
\* a pass reads exactly the next line, whatever diagnostics were raised; a
\* pass is left only with no line left, and the first pass and then the
\* second pass follow the expansion whether or not the error flag is set.
C16_NoAbortOnDiagnostic ==
    [][/\ (pc \in {"pre", "first", "second"} /\ pc' = pc) =>
              sfile'.count_line = sfile.count_line + 1
       /\ (pc \in {"pre", "first", "second"} /\ pc' # pc) => LinesLeft = 0
       /\ pc = "pre" => pc' \in {"pre", "first"}
       /\ pc = "first" => pc' \in {"first", "between"}
       /\ pc = "between" => pc' = "second"
       /\ pc = "second" => pc' \in {"second", "emitted"}]_vars

\* the second pass raises a diagnostic on its last line after the first
\* pass raised diagnostics on two different lines
C16_Witness ==
    /\ pc = "second"
    /\ LinesLeft = 0
    /\ \E j, k, l \in DOMAIN stdout :
           /\ j < k /\ k < l
           /\ IsDiagnostic(stdout[j]) /\ IsDiagnostic(stdout[k]) /\ IsDiagnostic(stdout[l])
           /\ stdout[j].line < stdout[k].line
           /\ stdout[l].code = "LABEL_NOT_FOUND"
           /\ stdout[l].line = sfile.count_line

(***************************************************************************)
(* The lines of a macro definition.                                        *)
(***************************************************************************)
\* the line the expander reads next
LineToExpand == argv[i][sfile.count_line + 1]

\* C17: inside a macro body a line whose first token is not endmcro (and
\* does not open another definition, which C18 is about) is appended as it
\* is to the body being collected and nothing is written to the .am file,
\* also when its first token is the name of a macro already defined.
C17_BodyLineStored ==
    [][(pc = "pre" /\ pc' = "pre" /\ macro_flag
            /\ Token(LineToExpand, 0, 1) \notin {START_MACRO, END_MACRO}) =>
           /\ curr_macro_text' = curr_macro_text \o LineToExpand
           /\ file_am' = file_am]_vars

\* C18: a line whose first token is mcro, read inside a macro body, raises
\* NESTED_MACRO_DEFINITION, is not written to the .am file, and leaves the
\* expander inside a body: the lines up to the next endmcro are not
\* written either, and no macro is added before it.
C18_NestedDefinition ==
    [][/\ (pc = "pre" /\ pc' = "pre" /\ macro_flag
              /\ Token(LineToExpand, 0, 1) = START_MACRO) =>
             /\ stdout' = Append(stdout, [code |-> "NESTED_MACRO_DEFINITION",
                                          line |-> sfile'.count_line])
             /\ file_am' = file_am
             /\ macro_flag'
             /\ sfile'.head_macro_list = sfile.head_macro_list
       /\ (pc = "pre" /\ pc' = "pre" /\ macro_flag
              /\ Token(LineToExpand, 0, 1) # END_MACRO) =>
             /\ macro_flag'
             /\ sfile'.head_macro_list = sfile.head_macro_list]_vars

\* a definition opened inside a body, with the diagnostic printed
C18_Witness ==
    /\ pc = "pre"
    /\ macro_flag
    /\ sfile.count_line >= 2
    /\ Token(argv[i][sfile.count_line], 0, 1) = START_MACRO
    /\ stdout # << >>
    /\ stdout[Len(stdout)].code = "NESTED_MACRO_DEFINITION"
    /\ stdout[Len(stdout)].line = sfile.count_line

(***************************************************************************)
(* The words of an instruction, as section 4.4.1 of the specification      *)
(* lays them out.                                                          *)
(***************************************************************************)
\* the addressing method value of an operand as it is written
OperandMethod(operand) ==
    IF operand = << >> THEN 0
    ELSE IF operand[1] = "@" THEN 5
    ELSE IF isdigit(operand[1]) \/ operand[1] \in {"-", "+"} THEN 1
    ELSE 3

\* the opcode number of a mnemonic: its position in mov .. stop, from 0
OpcodeNumber(mnemonic) == (CHOOSE k \in 1..16 : InstructionNames[k] = mnemonic) - 1

\* the source and the destination operand of an instruction statement
OperandsOf(statement) ==
    IF Len(statement) = 3 THEN [source |-> statement[2], destination |-> statement[3]]
    ELSE IF Len(statement) = 2 THEN [source |-> << >>, destination |-> statement[2]]
    ELSE [source |-> << >>, destination |-> << >>]

\* the line of the first pass a step reads
LineOfPass == AmLines(file_am)[sfile.count_line + 1]

\* a step of the first pass that accepts an instruction line: its statement
\* starts with a mnemonic and no diagnostic has been raised up to this line
InstructionAccepted ==
    /\ pc = "first" /\ pc' = "first"
    /\ StatementOf(LineOfPass) # << >>
    /\ \E k \in 1..16 : InstructionNames[k] = StatementOf(LineOfPass)[1]
    /\ ~sfile'.error_flag

\* C19: the first word of every instruction line the first pass accepts,
\* written at instruction_array[IC], has in its low 12 bits 0 in bits 0-1,
\* the destination addressing value in bits 2-4, the opcode number in bits
\* 5-8 and the source addressing value in bits 9-11, the addressing values
\* being 0 (no operand), 1 (immediate), 3 (direct) and 5 (register).
C19_FirstWordLayout ==
    [][InstructionAccepted =>
           LET statement == StatementOf(LineOfPass)
               operands  == OperandsOf(statement)
               word      == InstrRead(sfile'.instruction_array, sfile.IC) % 4096
           IN  /\ word % 4 = 0
               /\ (word \div 4) % 8 = OperandMethod(operands.destination)
               /\ (word \div 32) % 16 = OpcodeNumber(statement[1])
               /\ (word \div 512) % 8 = OperandMethod(operands.source)]_vars

\* first words with a register source, an immediate destination and opcode 1
\* (cmp @r4,-5), and with no operand and opcode 15 (stop)
C19_Witness ==
    /\ pc = "first"
    /\ ~sfile.error_flag
    /\ sfile.IC >= FIRST_CELL_IN_MEMORY + 4
    /\ InstrRead(sfile.instruction_array, FIRST_CELL_IN_MEMORY) % 4096 = 5 * 512 + 1 * 32 + 1 * 4
    /\ InstrRead(sfile.instruction_array, sfile.IC - 1) % 4096 = 15 * 32

\* the number of the register an operand @r0 .. @r7 names
RegisterNumber(operand) == CHOOSE r \in 0..7 : operand[3] = DigitChars[r + 1]

\* the low 12 bits of the word of one operand that is not paired with
\* another register: a register in its own field with the other field 0,
\* zero for a direct operand; the word of an immediate operand is left
\* open, written -1
OperandWord(operand, is_source) ==
    CASE OperandMethod(operand) = 5 ->
             <<IF is_source THEN RegisterNumber(operand) * 128
               ELSE RegisterNumber(operand) * 4>>
      [] OperandMethod(operand) = 3 -> <<0>>
      [] OperandMethod(operand) = 1 -> <<0 - 1>>
      [] OTHER -> << >>

\* the operand words of an instruction statement, source before destination
OperandWords(operands) ==
    IF OperandMethod(operands.source) = 5 /\ OperandMethod(operands.destination) = 5
    THEN <<RegisterNumber(operands.destination) * 4
             + RegisterNumber(operands.source) * 128>>
    ELSE OperandWord(operands.source, TRUE) \o OperandWord(operands.destination, FALSE)

DirectOperands(statement, table) ==
    LET operands == OperandsOf(statement)
        source   == IF OperandMethod(operands.source) = 3
                    THEN <<[name |-> operands.source, offset |-> 1]>> ELSE << >>
        source_words ==
            IF operands.source = << >> THEN 0
            ELSE IF OperandMethod(operands.source) = 3
                    /\ search_in_list_label(table, operands.source) = 0 THEN 0
            ELSE 1
        destination ==
            IF OperandMethod(operands.destination) = 3
            THEN <<[name |-> operands.destination, offset |-> 1 + source_words]>>
            ELSE << >>
    IN  source \o destination

\* the records <name> tab <address> of the operands that name an Extern label
RECURSIVE ExternRecords(_, _, _)
ExternRecords(directs, table, address) ==
    IF directs = << >> THEN << >>
    ELSE LET k == search_in_list_label(table, Head(directs).name)
         IN  (IF k # 0 /\ table[k].type = "EXTERN"
              THEN table[k].name_label \o <<"\t">>
                       \o IntToChars(address + Head(directs).offset) \o <<"\n">>
              ELSE << >>)
             \o ExternRecords(Tail(directs), table, address)

C22_DataLabelsRebased ==
    [][LET old == sfile.head_label_list
           new == sfile'.head_label_list
       IN  /\ (pc = "first" /\ pc' = "between") =>
                  IF DiagnosticRaised THEN new = old
                  ELSE /\ Len(new) = Len(old)
                       /\ \A k \in DOMAIN old :
                              /\ new[k].name_label = old[k].name_label
                              /\ new[k].type = old[k].type
                              /\ new[k].address_label
                                     = IF old[k].type = "DATA"
                                       THEN old[k].address_label + sfile.IC
                                       ELSE old[k].address_label
                              /\ old[k].type = "EXTERN" => new[k].address_label = 0
           /\ (pc \in {"between", "second"} /\ pc' \in {"second", "emitted"}) =>
                  /\ Len(new) = Len(old)
                  /\ \A k \in DOMAIN old :
                         new[k].address_label = old[k].address_label]_vars

\* after a first pass with no diagnostic and two code words, a Code label
\* at 100, a Data label of offset 0 moved to 102 and an Extern label at 0
C22_Witness ==
    /\ pc = "between"
    /\ ~DiagnosticRaised
    /\ sfile.IC = FIRST_CELL_IN_MEMORY + 2
    /\ \E j, k \in DOMAIN sfile.head_label_list :
           /\ sfile.head_label_list[j].type = "DATA"
           /\ sfile.head_label_list[j].address_label = FIRST_CELL_IN_MEMORY + 2
           /\ sfile.head_label_list[k].type \in {"CODE", "EXTERN"}
           /\ sfile.head_label_list[k].address_label \in {0, FIRST_CELL_IN_MEMORY}

(***************************************************************************)
(* The operand lists of the .data and .string directives.                  *)
(***************************************************************************)
\* a line that starts with the directive word, and the text after that word
IsDirectiveLine(line_text, directive) ==
    /\ Len(line_text) > Len(directive)
    /\ SubSeq(line_text, 1, Len(directive)) = directive
    /\ line_text[Len(directive) + 1] \in {" ", "\t", "\n"}

Remainder(line_text, directive) == SubSeq(line_text, Len(directive) + 1, Len(line_text))

WithoutBlanks(text) == SelectSeq(text, LAMBDA c : c \notin {" ", "\t", "\n"})

\* a comma before the first value, after the last one, or next to another
CommaMisplaced(text) ==
    LET t == WithoutBlanks(text)
    IN  /\ t # << >>
        /\ \/ t[1] = ","
           \/ t[Len(t)] = ","
           \/ \E k \in 1..(Len(t) - 1) : t[k] = "," /\ t[k + 1] = ","

\* the pieces of a text between its commas
RECURSIVE Pieces(_)
Pieces(text) ==
    IF \E k \in DOMAIN text : text[k] = ","
    THEN LET k == CHOOSE k \in DOMAIN text :
                      text[k] = "," /\ \A j \in 1..(k - 1) : text[j] # ","
         IN  <<SubSeq(text, 1, k - 1)>> \o Pieces(SubSeq(text, k + 1, Len(text)))
    ELSE <<text>>

\* a piece that is one signed integer between blanks
IsSignedInteger(piece) ==
    \E a \in DOMAIN piece : \E b \in a..Len(piece) :
        /\ WithoutBlanks(piece) = SubSeq(piece, a, b)
        /\ LET d == IF piece[a] \in {"+", "-"} THEN a + 1 ELSE a
           IN  d <= b /\ \A k \in d..b : isdigit(piece[k])

WellFormedList(text) == \A k \in DOMAIN Pieces(text) : IsSignedInteger(Pieces(text)[k])

DiagnosticCount(out) == Cardinality({k \in DOMAIN out : IsDiagnostic(out[k])})

DataDirective == <<".", "d", "a", "t", "a">>

\* C23: a .data line with a comma before its first value, between two commas
\* or after its last value raises a diagnostic when the first pass reads it,
\* and no object file is written for a file that has such a line; a .data
\* line with a well-formed list of n signed integers raises no diagnostic,
\* stores its n values at data_array[DC .. DC + n - 1] and advances DC by n.
C23_DataCommas ==
    [][/\ (pc = "first" /\ pc' = "first" /\ IsDirectiveLine(LineOfPass, DataDirective))
          => LET text   == Remainder(LineOfPass, DataDirective)
                 pieces == Pieces(text)
             IN  /\ CommaMisplaced(text)
                    => DiagnosticCount(stdout') > DiagnosticCount(stdout)
                 /\ WellFormedList(text)
                    => /\ DiagnosticCount(stdout') = DiagnosticCount(stdout)
                       /\ sfile'.DC = sfile.DC + Len(pieces)
                       /\ \A k \in DOMAIN pieces :
                              ArrRead(sfile'.data_array, sfile.DC + k - 1)
                                  = atoi(WithoutBlanks(pieces[k]))
       /\ (file_ob'.exists /\ ~file_ob.exists)
          => \A k \in DOMAIN AmLines(file_am) :
                 ~(/\ IsDirectiveLine(AmLines(file_am)[k], DataDirective)
                   /\ CommaMisplaced(Remainder(AmLines(file_am)[k], DataDirective)))]_vars

StringDirective == <<".", "s", "t", "r", "i", "n", "g">>

\* the text from its first character that is not a blank
FromFirstWord(text) ==
    IF WithoutBlanks(text) = << >> THEN << >>
    ELSE LET a == CHOOSE a \in DOMAIN text :
                      /\ text[a] \notin {" ", "\t", "\n"}
                      /\ \A j \in 1..(a - 1) : text[j] \in {" ", "\t", "\n"}
         IN  SubSeq(text, a, Len(text))

\* a quote, characters that are not quotes, a quote, and blanks to the end
IsQuotedString(text) ==
    LET t == FromFirstWord(text)
    IN  /\ Len(t) >= 2
        /\ t[1] = "\""
        /\ \E b \in 2..Len(t) :
               /\ t[b] = "\""
               /\ \A k \in 2..(b - 1) : t[k] # "\""
               /\ WithoutBlanks(SubSeq(t, b + 1, Len(t))) = << >>

\* the characters between the quotes of a quoted string
QuotedCharacters(text) ==
    LET t == FromFirstWord(text)
        b == CHOOSE b \in 2..Len(t) : t[b] = "\"" /\ \A k \in 2..(b - 1) : t[k] # "\""
    IN  SubSeq(t, 2, b - 1)

\* C24: a .string line whose operand is a quoted string of n characters
\* followed by blanks only stores the byte values of the n characters at
\* data_array[DC .. DC + n - 1] and a zero word after them, advances DC by
\* n + 1 and raises no diagnostic; a .string line whose operand does not
\* start with a quote raises STRING_STRUCTURE_NOT_VALID and leaves DC and
\* data_array as they were.
C24_StringStored ==
    [][(pc = "first" /\ pc' = "first" /\ IsDirectiveLine(LineOfPass, StringDirective))
          => LET text == Remainder(LineOfPass, StringDirective)
             IN  /\ IsQuotedString(text)
                    => LET chars == QuotedCharacters(text)
                       IN  /\ DiagnosticCount(stdout') = DiagnosticCount(stdout)
                           /\ sfile'.DC = sfile.DC + Len(chars) + 1
                           /\ \A k \in DOMAIN chars :
                                  ArrRead(sfile'.data_array, sfile.DC + k - 1)
                                      = CharCode(chars[k])
                           /\ ArrRead(sfile'.data_array, sfile.DC + Len(chars)) = 0
                 /\ (FromFirstWord(text) = << >> \/ FromFirstWord(text)[1] # "\"")
                    => /\ CountOf(stdout', "STRING_STRUCTURE_NOT_VALID")
                              = CountOf(stdout, "STRING_STRUCTURE_NOT_VALID") + 1
                       /\ sfile'.DC = sfile.DC
                       /\ sfile'.data_array = sfile.data_array]_vars

\* .string "ab" stored as 97, 98, 0 and a line .string ab" after it refused
C24_Witness ==
    /\ pc = "first"
    /\ sfile.count_line = 2
    /\ sfile.DC = 3
    /\ sfile.data_array = <<97, 98, 0>>
    /\ CountOf(stdout, "STRING_STRUCTURE_NOT_VALID") = 1
    /\ DiagnosticCount(stdout) = 1

(***************************************************************************)
(* The addressing methods an instruction accepts.                          *)
(***************************************************************************)
\* the mnemonics that refuse an immediate destination
ImmediateDestinationRefused ==
    {<<"m", "o", "v">>, <<"a", "d", "d">>, <<"s", "u", "b">>, <<"l", "e", "a">>,
     <<"n", "o", "t">>, <<"c", "l", "r">>, <<"i", "n", "c">>, <<"d", "e", "c">>,
     <<"j", "m", "p">>, <<"b", "n", "e">>, <<"r", "e", "d">>, <<"j", "s", "r">>}

\* a step of the first pass that reads a line starting with a mnemonic
InstructionRead ==
    /\ pc = "first" /\ pc' = "first"
    /\ StatementOf(LineOfPass) # << >>
    /\ StatementOf(LineOfPass) = WordsOf(LineOfPass)
    /\ \E k \in 1..16 : InstructionNames[k] = StatementOf(LineOfPass)[1]

\* C25: an instruction line with an immediate destination for mov, add, sub,
\* lea, not, clr, inc, dec, jmp, bne, red or jsr, or with a source for lea
\* that is not direct, raises INVALID_ADDRESS_METHOD_FOR_INSTRUCTION once,
\* writes no word to instruction_array and leaves IC as it was; cmp and prn
\* with an immediate destination raise no diagnostic and are encoded.
C25_OperandLegality ==
    [][InstructionRead =>
           LET statement == StatementOf(LineOfPass)
               operands  == OperandsOf(statement)
           IN  /\ (\/ /\ statement[1] \in ImmediateDestinationRefused
                      /\ OperandMethod(operands.destination) = 1
                   \/ /\ statement[1] = <<"l", "e", "a">>
                      /\ OperandMethod(operands.source) # 3)
                  => /\ CountOf(stdout', "INVALID_ADDRESS_METHOD_FOR_INSTRUCTION")
                            = CountOf(stdout, "INVALID_ADDRESS_METHOD_FOR_INSTRUCTION") + 1
                     /\ sfile'.instruction_array = sfile.instruction_array
                     /\ sfile'.IC = sfile.IC
               /\ (/\ statement[1] \in {<<"c", "m", "p">>, <<"p", "r", "n">>}
                   /\ OperandMethod(operands.destination) = 1
                   /\ ~sfile.error_flag)
                  => /\ DiagnosticCount(stdout') = DiagnosticCount(stdout)
                     /\ sfile'.IC = sfile.IC + 1 + Len(OperandWords(operands))
                     /\ (InstrRead(sfile'.instruction_array, sfile.IC) \div 4) % 8 = 1]_vars

\* a line refused for its addressing methods: nothing encoded, one diagnostic
C25_Witness ==
    /\ pc = "first"
    /\ sfile.count_line = 1
    /\ sfile.IC = FIRST_CELL_IN_MEMORY
    /\ sfile.instruction_array = << >>
    /\ CountOf(stdout, "INVALID_ADDRESS_METHOD_FOR_INSTRUCTION") = 1
    /\ StatementOf(AmLines(file_am)[1])[1] = <<"l", "e", "a">>

\* a line of the first pass whose first word is a label and whose second
\* word is the directive
LabelBefore(directive) ==
    /\ pc = "first" /\ pc' = "first"
    /\ Len(WordsOf(LineOfPass)) >= 2
    /\ WordsOf(LineOfPass)[1][Len(WordsOf(LineOfPass)[1])] = ":"
    /\ WordsOf(LineOfPass)[2] = directive

\* the step adds one diagnostic of the code and changes neither the label
\* table nor the counters nor the words stored
RefusedWith(error_code) ==
    /\ CountOf(stdout', error_code) = CountOf(stdout, error_code) + 1
    /\ DiagnosticCount(stdout') = DiagnosticCount(stdout) + 1
    /\ sfile'.head_label_list = sfile.head_label_list
    /\ sfile'.IC = sfile.IC
    /\ sfile'.DC = sfile.DC
    /\ sfile'.instruction_array = sfile.instruction_array
    /\ sfile'.data_array = sfile.data_array

\* C26: a line with a label in front of .entry raises
\* CANT_DEFINE_LABEL_BEFORE_ENTRY and one in front of .extern raises
\* CANT_DEFINE_LABEL_BEFORE_EXTERN; the label is not inserted and the rest
\* of the line is skipped: the names after .extern are not inserted either,
\* and IC and DC stay as they were.
C26_LabelBeforeDirective ==
    [][/\ LabelBefore(<<".", "e", "n", "t", "r", "y">>)
          => RefusedWith("CANT_DEFINE_LABEL_BEFORE_ENTRY")
       /\ LabelBefore(<<".", "e", "x", "t", "e", "r", "n">>)
          => RefusedWith("CANT_DEFINE_LABEL_BEFORE_EXTERN")]_vars

\* Y: stop inserted Y and encoded one word, then X: .extern Z was refused
C26_Witness ==
    /\ pc = "first"
    /\ sfile.count_line = 2
    /\ sfile.IC = FIRST_CELL_IN_MEMORY + 1
    /\ Len(sfile.head_label_list) = 1
    /\ CountOf(stdout, "CANT_DEFINE_LABEL_BEFORE_EXTERN") = 1
    /\ DiagnosticCount(stdout) = 1

(***************************************************************************)
(* The code addresses of the two passes.                                   *)
(***************************************************************************)
IsInstructionLine(line_text) ==
    /\ StatementOf(line_text) # << >>
    /\ \E k \in 1..16 : InstructionNames[k] = StatementOf(line_text)[1]

\* the number of words of the instruction lines: a first word and the
\* operand words of each
RECURSIVE CodeWordCount(_)
CodeWordCount(lines) ==
    IF lines = << >> THEN 0
    ELSE (IF IsInstructionLine(Head(lines))
          THEN 1 + Len(OperandWords(OperandsOf(StatementOf(Head(lines)))))
          ELSE 0)
         + CodeWordCount(Tail(lines))

\* the addresses of the words of the Direct operands of the instruction lines
PlaceholderCells(lines) ==
    UNION {LET operands == OperandsOf(StatementOf(lines[k]))
               address  == FIRST_CELL_IN_MEMORY + CodeWordCount(SubSeq(lines, 1, k - 1))
           IN  (IF OperandMethod(operands.source) = 3 THEN {address + 1} ELSE {})
               \cup (IF OperandMethod(operands.destination) = 3
                     THEN {address + 1 + (IF operands.source = << >> THEN 0 ELSE 1)}
                     ELSE {})
           : k \in {k \in DOMAIN lines : IsInstructionLine(lines[k])}}

\* the diagnostics only the second pass raises
SecondPassCodes ==
    {"LABEL_NOT_FOUND", "CANT_FIND_LABEL_TO_ENTRY", "MUST_PROVIDE_LABELS_TO_ENTRY"}

\* no diagnostic of the pre-assembly or of the first pass is on stdout
FirstPassClean ==
    \A k \in DOMAIN stdout :
        IsDiagnostic(stdout[k]) => stdout[k].code \in SecondPassCodes

\* C27: for a file whose pre-assembly and first pass raise no diagnostic,
\* IC at the end of the first pass is the base plus the words of its
\* instruction lines, IC at the end of a second pass that raises no
\* diagnostic is the same, and a step of the second pass changes only
\* cells of instruction_array that hold the word of a Direct operand of the
\* first pass: first words, register words and immediate words stay.
C27_SameCodeAddresses ==
    [][LET lines == AmLines(file_am)
           last  == FIRST_CELL_IN_MEMORY + CodeWordCount(lines)
       IN  /\ (pc = "first" /\ pc' = "between" /\ ~DiagnosticRaised')
              => sfile.IC = last
           /\ (pc = "second" /\ pc' = "emitted" /\ ~DiagnosticRaised)
              => sfile.IC = last
           /\ (pc = "second" /\ pc' = "second" /\ FirstPassClean)
              => \A a \in FIRST_CELL_IN_MEMORY..(last + 2) :
                     InstrRead(sfile'.instruction_array, a)
                         # InstrRead(sfile.instruction_array, a)
                     => a \in PlaceholderCells(lines)]_vars

(***************************************************************************)
(* The labels that .extern inserts.                                        *)
(***************************************************************************)
\* the positions of a translation at which the symbol table is alive
TableAlive(position) == position \in {"first", "between", "second"}

\* C28: a label of type EXTERN in the symbol table is, after every step of
\* the two passes, still in the table with type EXTERN and address 0; and
\* in a file with no diagnostic the word the second pass writes for a Direct
\* operand that names a label a .extern line declares has External in bits
\* 0-1 and the step adds a record to the extern listing.
C28_ExternStaysExtern ==
    [][/\ (TableAlive(pc) /\ TableAlive(pc'))
          => \A k \in DOMAIN sfile.head_label_list :
                 sfile.head_label_list[k].type = "EXTERN"
                 => \E j \in DOMAIN sfile'.head_label_list :
                        /\ sfile'.head_label_list[j].name_label
                               = sfile.head_label_list[k].name_label
                        /\ sfile'.head_label_list[j].type = "EXTERN"
                        /\ sfile'.head_label_list[j].address_label = 0
       /\ (pc = "second" /\ pc' = "second" /\ ~DiagnosticRaised'
              /\ IsInstructionLine(LineOfPass))
          => LET directs == DirectOperands(StatementOf(LineOfPass), sfile.head_label_list)
             IN  \A k \in DOMAIN directs :
                     directs[k].name \in DeclaredExtern(AmLines(file_am))
                     => /\ InstrRead(sfile'.instruction_array,
                                     sfile.IC + directs[k].offset) % 4 = EXTERNAL
                        /\ Len(extern_list') > Len(extern_list)]_vars

(***************************************************************************)
(* The first pass after a diagnostic.                                      *)
(***************************************************************************)
\* a line without the label in front of it
Unlabelled(line_text) ==
    IF /\ WordsOf(line_text) # << >>
       /\ WordsOf(line_text)[1][Len(WordsOf(line_text)[1])] = ":"
    THEN LET colon == CHOOSE k \in DOMAIN line_text :
                          line_text[k] = ":" /\ \A j \in 1..(k - 1) : line_text[j] # ":"
         IN  FromFirstWord(SubSeq(line_text, colon + 1, Len(line_text)))
    ELSE line_text

\* C29: once a diagnostic has been raised for the file, in the pre-assembly
\* or on an earlier line of the first pass, no step of the first pass
\* writes to instruction_array or changes IC, and a Code label the step
\* inserts gets the address IC; a well-formed .data line still stores its n
\* values and advances DC by n, and a well-formed .string line of n
\* characters still advances DC by n + 1.
C29_EncodingGatedByFile ==
    [][(pc = "first" /\ pc' = "first" /\ DiagnosticRaised)
          => LET line == Unlabelled(LineOfPass)
             IN  /\ sfile'.instruction_array = sfile.instruction_array
                 /\ sfile'.IC = sfile.IC
                 /\ \A k \in DOMAIN sfile'.head_label_list :
                        (/\ k \notin DOMAIN sfile.head_label_list
                         /\ sfile'.head_label_list[k].type = "CODE")
                        => sfile'.head_label_list[k].address_label = sfile.IC
                 /\ (/\ IsDirectiveLine(line, DataDirective)
                     /\ WellFormedList(Remainder(line, DataDirective)))
                    => LET pieces == Pieces(Remainder(line, DataDirective))
                       IN  /\ sfile'.DC = sfile.DC + Len(pieces)
                           /\ \A k \in DOMAIN pieces :
                                  ArrRead(sfile'.data_array, sfile.DC + k - 1)
                                      = atoi(WithoutBlanks(pieces[k]))
                 /\ (/\ IsDirectiveLine(line, StringDirective)
                     /\ IsQuotedString(Remainder(line, StringDirective)))
                    => sfile'.DC = sfile.DC + 1
                           + Len(QuotedCharacters(Remainder(line, StringDirective)))]_vars

\* after the diagnostic of foo, X: inc @r1 inserted X at 100 and encoded
\* nothing, and a directive line stored its words
C29_Witness ==
    /\ pc = "first"
    /\ sfile.count_line = 3
    /\ DiagnosticRaised
    /\ sfile.IC = FIRST_CELL_IN_MEMORY
    /\ sfile.instruction_array = << >>
    /\ sfile.DC >= 2
    /\ \E k \in DOMAIN sfile.head_label_list :
           /\ sfile.head_label_list[k].type = "CODE"
           /\ sfile.head_label_list[k].address_label = FIRST_CELL_IN_MEMORY
    /\ StatementOf(AmLines(file_am)[2]) = <<<<"i", "n", "c">>, <<"@", "r", "1">>>>

(***************************************************************************)
(* The end of the input of the macro expander.                             *)
(***************************************************************************)
\* C30: when the pre-assembly reaches the end of its input, either it is
\* outside a macro definition (macro_flag is FALSE) or a diagnostic has been
\* raised, so no line is left in a body that no endmcro closed; and a line
\* endmcro read outside a definition adds no macro to the macro table.
C30_NoLineDroppedSilently ==
    [][/\ (pc = "pre" /\ pc' = "first") => (~macro_flag \/ DiagnosticRaised)
       /\ (/\ pc = "pre" /\ pc' = "pre"
           /\ ~macro_flag
           /\ WordsOf(LineToExpand) # << >>
           /\ WordsOf(LineToExpand)[1] = <<"e", "n", "d", "m", "c", "r", "o">>)
          => /\ sfile'.head_macro_list = sfile.head_macro_list
             /\ sfile'.count_macro = sfile.count_macro]_vars

====
